---- MODULE Spec2Model ----
(***************************************************************************)
(* Cricket team optimizer: the feasibility validator                       *)
(* (services/validator.py) and the optimization engine (optimizer.py),     *)
(* called directly and through the /optimize request handlers (main.py,    *)
(* api/routes.py) with their result cache (cache.py).                      *)
(*                                                                         *)
(* A dataset is a sequence of rows; a row carries the columns the two      *)
(* functions read: role, price, score.  Prices and scores are integers;    *)
(* the efficiency score/price is kept exact by scaling with EffDen, a      *)
(* common multiple of every positive price of the model.                   *)
(***************************************************************************)
EXTENDS Integers, Sequences, FiniteSets, TLC

VARIABLES
    df,                \* the scored dataset (sequence of rows)
    columns,           \* the columns the dataset has
    pc,                \* position of the caller
    budget,            \* arguments of the call in progress
    team_size,
    role_constraints,
    strategy,
    vresult,           \* outcome of validate_optimization_inputs
    oresult,           \* outcome of optimize_team
    solve_count,       \* number of solver runs so far
    app,               \* the module whose /optimize handler serves
    cache,             \* optimization_cache._cache: key -> response
    cache_key,         \* the handler's cache_key
    lookup,            \* outcome of the handler's cache lookup
    response,          \* what the handler answers
    prev,              \* the request answered before this one, if it got a roster
    handlers,          \* the locals of the handlers in flight at once
    writes,            \* the handlers that wrote the cache, in order
    frames,            \* the DataFrame objects of the scorer, by identity
    calls,             \* the calls of calculate_score made so far
    excluded_players,  \* OptimizationRequest.excluded_players of the caller
    required_players,  \* OptimizationRequest.required_players of the caller
    cached_players_df, \* _cached_players_df of main.py and of player_service.py
    served,            \* the calls of get_players_data / get_scored_players
    loaded,            \* the datasets loaded so far, the last one being df
    stored_at,         \* for each cache key, which load was current at its write
    store,             \* the database table, its availability, and the CSV file
    load_log           \* the calls of load_players made so far

serverVars == <<app, cache, cache_key, lookup, response, prev>>

concurrentVars == <<handlers, writes>>

scoringVars == <<frames, calls>>

snapshotVars == <<cached_players_df, served>>

reloadVars == <<loaded, stored_at>>

repositoryVars == <<store, load_log>>

vars == <<df, columns, pc, budget, team_size, role_constraints, strategy,
          vresult, oresult, solve_count, app, cache, cache_key, lookup,
          response, prev, handlers, writes, frames, calls, excluded_players,
          required_players, cached_players_df, served, loaded, stored_at,
          store, load_log>>

----------------------------------------------------------------------------
(* Bounds of the model *)

MaxPlayers == 3
MaxRowsIncomplete == 1
MaxRequestBudget == 16
MaxScoreRows == 2
MaxScoreCalls == 2
MaxSnapshotCalls == 3
MaxReloads == 2
MaxCheckedRows == 2
MaxStoredPlayers == 2
MaxLoads == 2

(* The modules that keep a scored dataset in a global: main.py and         *)
(* services/player_service.py; None is written 0                           *)
SnapshotModules == {"main", "player_service"}

None == 0

NothingCached == [m \in SnapshotModules |-> None]

(* no database, no CSV file *)
NoStore == [available |-> FALSE, players |-> << >>, csv_exists |-> FALSE,
            csv |-> << >>]

Roles == {"WK", "BAT"}
Prices == {0, 1, 2}
Scores == {1, 2}
QuotaCounts == {0, 1, 2}

----------------------------------------------------------------------------
(* Helpers over rows *)

RECURSIVE SumPrice(_, _)
SumPrice(d, S) ==
    IF S = {} THEN 0
    ELSE LET i == CHOOSE i \in S : TRUE
         IN  d[i].price + SumPrice(d, S \ {i})

RECURSIVE SumScore(_, _)
SumScore(d, S) ==
    IF S = {} THEN 0
    ELSE LET i == CHOOSE i \in S : TRUE
         IN  d[i].score + SumScore(d, S \ {i})

RECURSIVE ProductOf(_)
ProductOf(S) ==
    IF S = {} THEN 1
    ELSE LET x == CHOOSE x \in S : TRUE
         IN  x * ProductOf(S \ {x})

(* the prices of the strategy fixture (tests/test_strategy.py 68-72) *)
FixturePrices == {5, 10}

(* A common multiple of the positive prices of the datasets optimize_team  *)
(* is run on: efficiencies are compared as the integers                    *)
(* EffDen * score / price.                                                 *)
EffDen == ProductOf({p \in Prices \cup FixturePrices : p > 0})

Row(r, p, s) == [role |-> r, price |-> p, score |-> s]

AllColumns == {"name", "price", "score", "role"}

----------------------------------------------------------------------------
(* Default role quota (validator.py 33-39, optimizer.py 45-51) *)

DefaultRoleConstraints == [WK |-> 1, BAT |-> 4, BOWL |-> 3, ALL |-> 3]

(* role_constraints is None or a dict: [none |-> TRUE] stands for None *)
NoneConstraints == [none |-> TRUE, map |-> << >>]
GivenConstraints(m) == [none |-> FALSE, map |-> m]

EffectiveConstraints(rc) ==
    IF rc.none THEN DefaultRoleConstraints ELSE rc.map

----------------------------------------------------------------------------
(* services/validator.py: validate_optimization_inputs *)

ValidatorRequiredColumns == {"name", "price", "role"}

(* Validation 1 *)
BudgetNotPositive(b) == b <= 0

(* Validation 2 *)
ValidatorMissingColumns(cols) == ValidatorRequiredColumns \ cols

(* df[df['role'] == role] *)
RolePlayers(d, role) == {i \in DOMAIN d : d[i].role = role}

(* df['role'].value_counts().to_dict().get(role, 0) *)
RoleAvailability(d, role) == Cardinality(RolePlayers(d, role))

(* Faulty variant: a role with exactly the required number is refused *)
InsufficientRoles_Inclusive(d, quota) ==
    {r \in DOMAIN quota : RoleAvailability(d, r) <= quota[r]}

(* Validation 3 *)
InsufficientRoles(d, quota) ==
    {r \in DOMAIN quota : RoleAvailability(d, r) < quota[r]}

(* Faulty variant: the dearest players of the role are taken (nlargest) *)
RECURSIVE NSmallestPriceSum_Largest(_, _, _)
NSmallestPriceSum_Largest(d, S, n) ==
    IF n <= 0 \/ S = {} THEN 0
    ELSE LET i == CHOOSE i \in S : \A j \in S : d[i].price >= d[j].price
         IN  d[i].price + NSmallestPriceSum_Largest(d, S \ {i}, n - 1)

(* role_players.nsmallest(required_count, 'price')['price'].sum() *)
RECURSIVE NSmallestPriceSum(_, _, _)
NSmallestPriceSum(d, S, n) ==
    IF n <= 0 \/ S = {} THEN 0
    ELSE LET i == CHOOSE i \in S : \A j \in S : d[i].price <= d[j].price
         IN  d[i].price + NSmallestPriceSum(d, S \ {i}, n - 1)

(* Validation 4: min_cost summed over role_constraints.items() *)
RECURSIVE MinCostOver(_, _, _)
MinCostOver(d, quota, R) ==
    IF R = {} THEN 0
    ELSE LET r == CHOOSE r \in R : TRUE
         IN  NSmallestPriceSum(d, RolePlayers(d, r), quota[r])
             + MinCostOver(d, quota, R \ {r})

MinCost(d, quota) == MinCostOver(d, quota, DOMAIN quota)

(* the role_players.empty raise inside the min-cost loop *)
EmptyRoles(d, quota) == {r \in DOMAIN quota : RolePlayers(d, r) = {}}

(* Faulty variant: a budget equal to the minimum cost is refused *)
BudgetInsufficient_Inclusive(b, min_cost) == b <= min_cost

(* if budget < min_cost *)
BudgetInsufficient(b, min_cost) == b < min_cost

(* The outcome: "ok" (returns None) or the ValidationError raised *)
validate_optimization_inputs(b, d, cols, rc) ==
    LET quota == EffectiveConstraints(rc)
    IN  IF BudgetNotPositive(b) THEN "budget_not_positive"
        ELSE IF ValidatorMissingColumns(cols) # {} THEN "missing_columns"
        ELSE IF InsufficientRoles(d, quota) # {} THEN "insufficient_players"
        ELSE IF EmptyRoles(d, quota) # {} THEN "no_players_for_role"
        ELSE IF BudgetInsufficient(b, MinCost(d, quota)) THEN "insufficient_budget"
        ELSE "ok"

----------------------------------------------------------------------------
(* optimizer.py: optimize_team *)

OptimizerRequiredColumns == {"name", "price", "score", "role"}

(* the substitute multiplier for a zero price (optimizer.py 98) *)
EffK == 1000

(* Faulty variant: a zero price keeps the bare score, without the multiplier *)
Efficiency_NoMultiplier(row) ==
    IF row.price > 0 THEN (row.score * EffDen) \div row.price
    ELSE IF row.score > 0 THEN row.score * EffDen
    ELSE 0

(* efficiencies[i], scaled by EffDen (optimizer.py 91-98) *)
Efficiency(row) ==
    IF row.price > 0 THEN (row.score * EffDen) \div row.price
    ELSE IF row.score > 0 THEN row.score * EffK * EffDen
    ELSE 0

RECURSIVE SumEfficiency(_, _)
SumEfficiency(d, S) ==
    IF S = {} THEN 0
    ELSE LET i == CHOOSE i \in S : TRUE
         IN  Efficiency(d[i]) + SumEfficiency(d, S \ {i})

(* Faulty variant: the strategy is ignored, the score is always maximised *)
Objective_AlwaysScore(d, S, strat) == SumScore(d, S)

(* Faulty variant: the strategy is ignored, efficiency is always maximised *)
Objective_AlwaysEfficiency(d, S, strat) == SumEfficiency(d, S)

(* The objective of the problem; S is the set of rows whose variable is 1 *)
Objective(d, S, strat) ==
    IF strat = "MAX_SCORE_PER_COST" THEN SumEfficiency(d, S)
    ELSE SumScore(d, S)

(* Faulty variant: the budget row is built from the scores *)
BudgetConstraint_OnScores(d, S, b) == SumScore(d, S) <= b

(* Constraint 1 *)
BudgetConstraint(d, S, b) == SumPrice(d, S) <= b

(* Faulty variant: the team size is not constrained *)
TeamSizeConstraint_Ignored(S, n) == TRUE

(* Constraint 2 *)
TeamSizeConstraint(S, n) == Cardinality(S) = n

(* Faulty variant: the quota is a minimum, not an exact count *)
RoleConstraint_AtLeast(d, S, quota) ==
    \A r \in DOMAIN quota : Cardinality({i \in S : d[i].role = r}) >= quota[r]

(* Constraint 3, one equality per item of role_constraints *)
RoleConstraint(d, S, quota) ==
    \A r \in DOMAIN quota : Cardinality({i \in S : d[i].role = r}) = quota[r]

(* The 0/1 assignments that satisfy every constraint added to prob *)
FeasibleRegion(d, b, n, quota) ==
    {S \in SUBSET (DOMAIN d) :
        /\ TeamSizeConstraint(S, n)
        /\ RoleConstraint(d, S, quota)
        /\ BudgetConstraint(d, S, b)}

(* prob.solve(PULP_CBC_CMD): the assignments CBC may report as optimal.    *)
(* The set is empty exactly when the status is Infeasible; which optimum   *)
(* is reported among ties is the solver's choice.                          *)
SolverOptima(d, b, n, quota, strat) ==
    LET F == FeasibleRegion(d, b, n, quota)
        values == {Objective(d, T, strat) : T \in F}
    IN  {S \in F : \A v \in values : v <= Objective(d, S, strat)}

(* Faulty variant: the budget is checked first *)
ArgumentCheck_BudgetFirst(d, cols, b, n) ==
    IF b <= 0 THEN "budget_not_positive"
    ELSE IF OptimizerRequiredColumns \ cols # {} THEN "missing_columns"
    ELSE IF Len(d) = 0 THEN "empty_dataframe"
    ELSE IF n <= 0 THEN "team_size_not_positive"
    ELSE IF n > Len(d) THEN "team_size_exceeds_players"
    ELSE "pass"

(* The argument checks, in the order of the code *)
ArgumentCheck(d, cols, b, n) ==
    IF OptimizerRequiredColumns \ cols # {} THEN "missing_columns"
    ELSE IF Len(d) = 0 THEN "empty_dataframe"
    ELSE IF n <= 0 THEN "team_size_not_positive"
    ELSE IF n > Len(d) THEN "team_size_exceeds_players"
    ELSE IF b <= 0 THEN "budget_not_positive"
    ELSE "pass"

(* The ValueError raised: no roster *)
Failure(status) ==
    [status |-> status, selected |-> {}, total_cost |-> 0, total_score |-> 0]

(* The dict returned: the rows whose variable is 1, in dataset order, with *)
(* total_cost and total_score summed over them (optimizer.py 141-159)      *)
Roster(d, S) ==
    [status |-> "ok", selected |-> S,
     total_cost |-> SumPrice(d, S), total_score |-> SumScore(d, S)]

(* Faulty variant: prob.status is not examined; after an Infeasible solve   *)
(* no variable equals 1 and the empty selection is returned as a roster    *)
optimize_team_StatusUnchecked(d, cols, b, n, rc, strat) ==
    LET check == ArgumentCheck(d, cols, b, n)
        best  == SolverOptima(d, b, n, EffectiveConstraints(rc), strat)
    IN  IF check # "pass" THEN {Failure(check)}
        ELSE IF best = {} THEN {Roster(d, {})}
        ELSE {Roster(d, S) : S \in best}

(* Every outcome optimize_team can have on these arguments: a roster (the  *)
(* indices selected, listed in dataset order) or the ValueError raised     *)
optimize_team(d, cols, b, n, rc, strat) ==
    LET check == ArgumentCheck(d, cols, b, n)
        best  == SolverOptima(d, b, n, EffectiveConstraints(rc), strat)
    IN  IF check # "pass" THEN {Failure(check)}
        ELSE IF best = {} THEN {Failure("Infeasible")}
        ELSE {Roster(d, S) : S \in best}

----------------------------------------------------------------------------
(* Inputs of the direct calls *)

Rows == {Row(r, p, s) : r \in Roles, p \in Prices, s \in Scores}

RoleOrder == <<"WK", "BAT", "BOWL", "ALL">>
RoleIndex(r) == CHOOSE k \in DOMAIN RoleOrder : RoleOrder[k] = r

RowLeq(a, b) ==
    \/ RoleIndex(a.role) < RoleIndex(b.role)
    \/ /\ a.role = b.role
       /\ \/ a.price < b.price
          \/ a.price = b.price /\ a.score <= b.score

(* Neither function reads the row order (rows enter through sums and      *)
(* counts only), so the datasets are enumerated up to row order.           *)
Datasets ==
    {d \in UNION {[1..n -> Rows] : n \in 0..MaxPlayers} :
        \A i \in 1..(Len(d) - 1) : RowLeq(d[i], d[i + 1])}

ColumnSets == {AllColumns} \cup {AllColumns \ {c} : c \in AllColumns}

Strategies == {"MAX_SCORE", "MAX_SCORE_PER_COST"}

QuotaMaps == UNION {[D -> QuotaCounts] : D \in SUBSET Roles}

RoleConstraintInputs ==
    {NoneConstraints} \cup {GivenConstraints(m) : m \in QuotaMaps}

TotalPrice(d) == SumPrice(d, DOMAIN d)

(* budgets from a negative one up to one more than the price of the whole  *)
(* dataset, beyond which every selection is affordable                     *)
Budgets(d) == -1..(TotalPrice(d) + 1)

TeamSizes(d) == 0..(Len(d) + 1)

----------------------------------------------------------------------------
(* Inputs of the /optimize handler *)

(* BudgetRequest: team_size has ge=1, le=11 (models/schemas.py 15) *)
MinTeamSize == 1
MaxTeamSize == 11

(* budget: int with gt=0.  The budgets tried are the least one and those   *)
(* around the cost of a squad; the team sizes are the least one and those  *)
(* around the size of the default quota.                                   *)
RequestBudgets == {1} \cup ((MaxRequestBudget - 1)..MaxRequestBudget)

RequestTeamSizes == {MinTeamSize, MaxTeamSize - 1, MaxTeamSize}

BudgetRequests ==
    [budget : RequestBudgets,
     team_size : RequestTeamSizes,
     strategy : Strategies]

(* A squad that fills the default quota exactly: one WK, four BAT, three   *)
(* BOWL, three ALL, with two price levels inside the larger roles.         *)
BaseSquad ==
    << Row("WK", 1, 1),
       Row("BAT", 1, 1), Row("BAT", 1, 2), Row("BAT", 2, 1), Row("BAT", 2, 2),
       Row("BOWL", 1, 1), Row("BOWL", 1, 2), Row("BOWL", 2, 2),
       Row("ALL", 1, 1), Row("ALL", 2, 1), Row("ALL", 2, 2) >>

ExtraRows == Rows

RemoveAt(d, k) ==
    [i \in 1..(Len(d) - 1) |-> IF i < k THEN d[i] ELSE d[i + 1]]

(* The datasets the server is started on: the base squad, the base squad   *)
(* with one more WK or BAT, and the base squad with one player missing.    *)
SquadDatasets ==
    {BaseSquad}
        \cup {Append(BaseSquad, x) : x \in ExtraRows}
        \cup {RemoveAt(BaseSquad, k) : k \in DOMAIN BaseSquad}

----------------------------------------------------------------------------
(* cache.py: OptimizationCache, and the cache api/routes.py imports *)

NoResult == Failure("none")

(* Faulty variant: the hash does not depend on the content *)
generate_dataset_hash_Constant(d) == {}

(* str(pd.util.hash_pandas_object(df).sum()): one hash per row, taken over *)
(* the row's index label and its values, and the hashes summed.  The hash  *)
(* of a row is kept as the pair it is computed from, the sum as their set. *)
generate_dataset_hash(d) == {<<i, d[i]>> : i \in DOMAIN d}

(* def get_cache_key(self, budget, team_size, df) *)
GetCacheKeyParameters == {"budget", "team_size", "df"}

(* f"opt:{budget}:{team_size}:{dataset_hash}" *)
get_cache_key(b, n, d) == <<"opt", b, n, generate_dataset_hash(d)>>

(* repositories/cache.py, which api/routes.py imports, is not among the    *)
(* sources; its key is the one of the design: (budget, team_size,          *)
(* strategy, dataset fingerprint).                                         *)
RepositoriesCacheKeyParameters == {"budget", "team_size", "strategy", "df"}

repositories_get_cache_key(b, n, s, d) ==
    <<"opt", b, n, s, generate_dataset_hash(d)>>

(* Faulty variant: nothing is ever found *)
CacheGet_AlwaysAbsent(c, key) == NoResult

(* self._cache.get(key): the value stored, or None *)
CacheGet(c, key) == IF key \in DOMAIN c THEN c[key] ELSE NoResult

(* self._cache[key] = value *)
CacheSet(c, key, value) ==
    [k \in DOMAIN c \cup {key} |-> IF k = key THEN value ELSE c[k]]

EmptyCache == << >>

----------------------------------------------------------------------------
(* The /optimize handlers: main.py and api/routes.py *)

Apps == {"main", "routes"}

(* the keywords of the handler's call optimization_cache.get_cache_key(    *)
(* budget=..., team_size=..., strategy=..., df=...)                        *)
EndpointKeyKeywords == {"budget", "team_size", "strategy", "df"}

(* the parameters of the get_cache_key the handler's module imports *)
CacheKeyParameters(a) ==
    IF a = "main" THEN GetCacheKeyParameters
    ELSE RepositoriesCacheKeyParameters

(* A call by keywords binds when every keyword names a parameter and every *)
(* parameter (none has a default) is given; otherwise it raises TypeError. *)
CallBinds(keywords, parameters) == keywords = parameters

NoKey == [status |-> "none", key |-> << >>]

(* the cache_key of the handler, or the exception of the call *)
EndpointCacheKey(a, b, n, s, d) ==
    IF ~ CallBinds(EndpointKeyKeywords, CacheKeyParameters(a))
    THEN [status |-> "TypeError", key |-> << >>]
    ELSE IF a = "main"
    THEN [status |-> "ok", key |-> get_cache_key(b, n, d)]
    ELSE [status |-> "ok", key |-> repositories_get_cache_key(b, n, s, d)]

(* if cached_result: an OptimizeResponse is true, None is not *)
Truthy(value) == value # NoResult

(* except ValidationError / except ValueError: 400; except Exception: 500 *)
HttpError(exception) ==
    IF exception \in {"ValidationError", "ValueError"}
    THEN Failure("HTTP_400")
    ELSE Failure("HTTP_500")

----------------------------------------------------------------------------
(* State machine *)

(* prob.solve runs once the argument checks have passed *)
SolverRuns(d, cols, b, n) ==
    IF ArgumentCheck(d, cols, b, n) = "pass" THEN 1 ELSE 0

NoHandlers == << >>

NoPrev ==
    [budget |-> 0, team_size |-> 0, strategy |-> "MAX_SCORE",
     response |-> NoResult, solves |-> 0]

NoCall ==
    /\ budget = 0
    /\ team_size = 0
    /\ role_constraints = NoneConstraints
    /\ strategy = "MAX_SCORE"
    /\ vresult = "none"
    /\ oresult = NoResult
    /\ solve_count = 0
    /\ cache_key = NoKey
    /\ lookup = "none"
    /\ response = NoResult

ResetCall ==
    /\ budget' = 0
    /\ team_size' = 0
    /\ role_constraints' = NoneConstraints
    /\ strategy' = "MAX_SCORE"
    /\ vresult' = "none"
    /\ oresult' = NoResult
    /\ solve_count' = 0
    /\ cache_key' = NoKey
    /\ lookup' = "none"
    /\ response' = NoResult

(* The functions are called directly on a small dataset *)
InitDirect ==
    /\ df \in Datasets
    /\ columns \in ColumnSets
    /\ columns # AllColumns => Len(df) <= MaxRowsIncomplete
    /\ pc = "idle"
    /\ app = "none"
    /\ cache = EmptyCache
    /\ prev = NoPrev
    /\ NoCall
    /\ handlers = NoHandlers
    /\ writes = << >>
    /\ frames = << >>
    /\ calls = << >>
    /\ excluded_players = {}
    /\ required_players = {}
    /\ cached_players_df = NothingCached
    /\ served = << >>
    /\ loaded = << >>
    /\ stored_at = << >>
    /\ store = NoStore
    /\ load_log = << >>

(* The server holds a loaded and scored squad and an empty cache, and      *)
(* waits for requests                                                      *)
InitServer ==
    /\ df \in SquadDatasets
    /\ columns = AllColumns
    /\ pc = "listening"
    /\ app \in Apps
    /\ cache = EmptyCache
    /\ prev = NoPrev
    /\ NoCall
    /\ handlers = NoHandlers
    /\ writes = << >>
    /\ frames = << >>
    /\ calls = << >>
    /\ excluded_players = {}
    /\ required_players = {}
    /\ cached_players_df = NothingCached
    /\ served = << >>
    /\ loaded = <<df>>
    /\ stored_at = << >>
    /\ store = NoStore
    /\ load_log = << >>

(* A caller runs validate_optimization_inputs(budget, df, role_constraints) *)
ValidateCall ==
    /\ pc = "idle"
    /\ \E b \in Budgets(df), rc \in RoleConstraintInputs :
        /\ budget' = b
        /\ role_constraints' = rc
        /\ vresult' = validate_optimization_inputs(b, df, columns, rc)
    /\ pc' = "validate_done"
    /\ UNCHANGED <<df, columns, team_size, strategy, oresult, solve_count>>
    /\ UNCHANGED serverVars
    /\ UNCHANGED concurrentVars
    /\ UNCHANGED scoringVars
    /\ UNCHANGED <<excluded_players, required_players>>
    /\ UNCHANGED snapshotVars
    /\ UNCHANGED reloadVars
    /\ UNCHANGED repositoryVars

(* A caller runs optimize_team(df, budget, team_size, role_constraints,    *)
(* strategy)                                                               *)
OptimizeCall ==
    /\ pc = "idle"
    /\ \E b \in Budgets(df), n \in TeamSizes(df),
          rc \in RoleConstraintInputs, st \in Strategies :
        /\ budget' = b
        /\ team_size' = n
        /\ role_constraints' = rc
        /\ strategy' = st
        /\ oresult' \in optimize_team(df, columns, b, n, rc, st)
        /\ solve_count' = SolverRuns(df, columns, b, n)
    /\ pc' = "optimize_done"
    /\ UNCHANGED <<df, columns, vresult>>
    /\ UNCHANGED serverVars
    /\ UNCHANGED concurrentVars
    /\ UNCHANGED scoringVars
    /\ UNCHANGED <<excluded_players, required_players>>
    /\ UNCHANGED snapshotVars
    /\ UNCHANGED reloadVars
    /\ UNCHANGED repositoryVars

(* The call returns or raises to its caller; the next call starts afresh *)
Return ==
    /\ pc \in {"validate_done", "optimize_done"}
    /\ pc' = "idle"
    /\ ResetCall
    /\ UNCHANGED <<df, columns, app, cache, prev>>
    /\ UNCHANGED concurrentVars
    /\ UNCHANGED scoringVars
    /\ UNCHANGED <<excluded_players, required_players>>
    /\ UNCHANGED snapshotVars
    /\ UNCHANGED reloadVars
    /\ UNCHANGED repositoryVars

(* POST /optimize: the body is parsed into a BudgetRequest *)
ReceiveRequest ==
    /\ pc = "listening"
    /\ \E request \in BudgetRequests :
        /\ budget' = request.budget
        /\ team_size' = request.team_size
        /\ strategy' = request.strategy
    /\ pc' = "keying"
    /\ UNCHANGED <<df, columns, role_constraints, vresult, oresult, solve_count>>
    /\ UNCHANGED serverVars
    /\ UNCHANGED concurrentVars
    /\ UNCHANGED scoringVars
    /\ UNCHANGED <<excluded_players, required_players>>
    /\ UNCHANGED snapshotVars
    /\ UNCHANGED reloadVars
    /\ UNCHANGED repositoryVars

(* The dataset object df_scored after a step of the handler has used it.   *)
(* The key computation hashes it (hash_pandas_object builds a new Series); *)
(* the validator counts roles, selects the rows of a role into a copy and  *)
(* takes nsmallest of the copy; the optimizer reads the columns into       *)
(* arrays and takes df.loc[selected] into a new DataFrame.  None of them   *)
(* assigns to df or calls an in-place method on it.                        *)
DatasetAfterKey(d) == d

(* Faulty variant: the rows are sorted in place, here into reverse order *)
DatasetAfterValidate_SortedInPlace(d) ==
    [i \in DOMAIN d |-> d[Len(d) + 1 - i]]

DatasetAfterValidate(d) == d

DatasetAfterOptimize(d) == d

(* cache_key = optimization_cache.get_cache_key(budget=, team_size=,       *)
(* strategy=, df=); an exception of the call is caught by                  *)
(* except Exception and ends the request with 500                          *)
EndpointGetCacheKey ==
    /\ pc = "keying"
    /\ cache_key' = EndpointCacheKey(app, budget, team_size, strategy, df)
    /\ IF cache_key'.status = "ok"
       THEN pc' = "lookup" /\ response' = response
       ELSE pc' = "rejected" /\ response' = HttpError(cache_key'.status)
    /\ df' = DatasetAfterKey(df)
    /\ UNCHANGED <<columns, budget, team_size, role_constraints, strategy,
                   vresult, oresult, solve_count, app, cache, lookup, prev>>
    /\ UNCHANGED concurrentVars
    /\ UNCHANGED scoringVars
    /\ UNCHANGED <<excluded_players, required_players>>
    /\ UNCHANGED snapshotVars
    /\ UNCHANGED reloadVars
    /\ UNCHANGED repositoryVars

(* cached_result = optimization_cache.get(cache_key); if cached_result:    *)
(* return cached_result                                                    *)
EndpointCacheGet ==
    /\ pc = "lookup"
    /\ LET cached_result == CacheGet(cache, cache_key.key)
       IN  IF Truthy(cached_result)
           THEN lookup' = "hit" /\ response' = cached_result /\ pc' = "responded"
           ELSE lookup' = "miss" /\ response' = response /\ pc' = "validating"
    /\ UNCHANGED <<df, columns, budget, team_size, role_constraints, strategy,
                   vresult, oresult, solve_count, app, cache, cache_key, prev>>
    /\ UNCHANGED concurrentVars
    /\ UNCHANGED scoringVars
    /\ UNCHANGED <<excluded_players, required_players>>
    /\ UNCHANGED snapshotVars
    /\ UNCHANGED reloadVars
    /\ UNCHANGED repositoryVars

(* Faulty variant: the ValidationError is swallowed and the request goes   *)
(* on to the solve                                                         *)
EndpointValidate_Swallowed ==
    /\ pc = "validating"
    /\ vresult' = validate_optimization_inputs(budget, df, columns, NoneConstraints)
    /\ pc' = "optimizing"
    /\ UNCHANGED <<df, columns, budget, team_size, role_constraints, strategy,
                   oresult, solve_count, app, cache, cache_key, lookup,
                   response, prev>>
    /\ UNCHANGED concurrentVars
    /\ UNCHANGED scoringVars
    /\ UNCHANGED <<excluded_players, required_players>>
    /\ UNCHANGED snapshotVars
    /\ UNCHANGED reloadVars
    /\ UNCHANGED repositoryVars

(* validate_optimization_inputs(budget=request.budget, df=df_scored): no   *)
(* role_constraints is passed; a ValidationError ends the request with 400 *)
EndpointValidate ==
    /\ pc = "validating"
    /\ vresult' = validate_optimization_inputs(budget, df, columns, NoneConstraints)
    /\ IF vresult' = "ok"
       THEN pc' = "optimizing" /\ response' = response
       ELSE pc' = "rejected" /\ response' = HttpError("ValidationError")
    /\ df' = DatasetAfterValidate(df)
    /\ UNCHANGED <<columns, budget, team_size, role_constraints, strategy,
                   oresult, solve_count, app, cache, cache_key, lookup, prev>>
    /\ UNCHANGED concurrentVars
    /\ UNCHANGED scoringVars
    /\ UNCHANGED <<excluded_players, required_players>>
    /\ UNCHANGED snapshotVars
    /\ UNCHANGED reloadVars
    /\ UNCHANGED repositoryVars

(* Faulty variant: the handler goes on to the cache write whatever the     *)
(* solve gave                                                              *)
EndpointOptimize_CachesFailure ==
    /\ pc = "optimizing"
    /\ oresult' \in optimize_team(df, columns, budget, team_size,
                                  NoneConstraints, strategy)
    /\ solve_count' = solve_count + SolverRuns(df, columns, budget, team_size)
    /\ pc' = "caching"
    /\ UNCHANGED <<df, columns, budget, team_size, role_constraints, strategy,
                   vresult, app, cache, cache_key, lookup, response, prev>>
    /\ UNCHANGED concurrentVars
    /\ UNCHANGED scoringVars
    /\ UNCHANGED <<excluded_players, required_players>>
    /\ UNCHANGED snapshotVars
    /\ UNCHANGED reloadVars
    /\ UNCHANGED repositoryVars

(* optimize_team(df_scored, budget, team_size, strategy): no               *)
(* role_constraints is passed; a ValueError ends the request with 400      *)
EndpointOptimize ==
    /\ pc = "optimizing"
    /\ oresult' \in optimize_team(df, columns, budget, team_size,
                                  NoneConstraints, strategy)
    /\ solve_count' = solve_count + SolverRuns(df, columns, budget, team_size)
    /\ IF oresult'.status = "ok"
       THEN pc' = "caching" /\ response' = response
       ELSE pc' = "rejected" /\ response' = HttpError("ValueError")
    /\ df' = DatasetAfterOptimize(df)
    /\ UNCHANGED <<columns, budget, team_size, role_constraints, strategy,
                   vresult, app, cache, cache_key, lookup, prev>>
    /\ UNCHANGED concurrentVars
    /\ UNCHANGED scoringVars
    /\ UNCHANGED <<excluded_players, required_players>>
    /\ UNCHANGED snapshotVars
    /\ UNCHANGED reloadVars
    /\ UNCHANGED repositoryVars

(* response = OptimizeResponse(players, total_cost, total_score);          *)
(* optimization_cache.set(cache_key, response); return response            *)
EndpointCacheSet ==
    /\ pc = "caching"
    /\ response' = oresult
    /\ cache' = CacheSet(cache, cache_key.key, response')
    /\ pc' = "responded"
    /\ UNCHANGED <<df, columns, budget, team_size, role_constraints, strategy,
                   vresult, oresult, solve_count, app, cache_key, lookup, prev>>
    /\ UNCHANGED concurrentVars
    /\ UNCHANGED scoringVars
    /\ UNCHANGED <<excluded_players, required_players>>
    /\ UNCHANGED snapshotVars
    /\ stored_at' = CacheSet(stored_at, cache_key.key, Len(loaded))
    /\ UNCHANGED loaded
    /\ UNCHANGED repositoryVars

(* The response is sent; the handler is ready for the next request *)
Respond ==
    /\ pc \in {"responded", "rejected"}
    /\ pc' = "listening"
    /\ prev' = IF response.status = "ok"
               THEN [budget |-> budget, team_size |-> team_size,
                     strategy |-> strategy, response |-> response,
                     solves |-> solve_count]
               ELSE NoPrev
    /\ ResetCall
    /\ UNCHANGED <<df, columns, app, cache>>
    /\ UNCHANGED concurrentVars
    /\ UNCHANGED scoringVars
    /\ UNCHANGED <<excluded_players, required_players>>
    /\ UNCHANGED snapshotVars
    /\ UNCHANGED reloadVars
    /\ UNCHANGED repositoryVars

Init == InitDirect \/ InitServer

Next ==
    \/ ValidateCall
    \/ OptimizeCall
    \/ Return
    \/ ReceiveRequest
    \/ EndpointGetCacheKey
    \/ EndpointCacheGet
    \/ EndpointValidate
    \/ EndpointOptimize
    \/ EndpointCacheSet
    \/ Respond

Spec == Init /\ [][Next]_vars

(* The server alone *)
ServerNext ==
    \/ ReceiveRequest
    \/ EndpointGetCacheKey
    \/ EndpointCacheGet
    \/ EndpointValidate
    \/ EndpointOptimize
    \/ EndpointCacheSet
    \/ Respond

ServerSpec == InitServer /\ [][ServerNext]_vars

----------------------------------------------------------------------------
(* The handler of api/routes.py when the dataset is loaded again between   *)
(* requests: get_scored_players(force_refresh=True) puts a newly loaded    *)
(* and scored DataFrame into the global the handler reads.  main.py has no *)
(* force_refresh; there the dataset of a process never changes.            *)

ReloadDatasets == {BaseSquad, Append(BaseSquad, Row("BAT", 0, 1))}

(* Requests for a full team at the largest budget *)
ReloadRequests ==
    [budget : {MaxRequestBudget},
     team_size : {MaxTeamSize},
     strategy : Strategies]

InitReload ==
    /\ InitServer
    /\ df \in ReloadDatasets

(* POST /optimize with one of these requests *)
ReceiveReloadRequest ==
    /\ pc = "listening"
    /\ \E request \in ReloadRequests :
        /\ budget' = request.budget
        /\ team_size' = request.team_size
        /\ strategy' = request.strategy
    /\ pc' = "keying"
    /\ UNCHANGED <<df, columns, role_constraints, vresult, oresult, solve_count>>
    /\ UNCHANGED serverVars
    /\ UNCHANGED concurrentVars
    /\ UNCHANGED scoringVars
    /\ UNCHANGED <<excluded_players, required_players>>
    /\ UNCHANGED snapshotVars
    /\ UNCHANGED reloadVars
    /\ UNCHANGED repositoryVars

(* get_scored_players(force_refresh=True): what load_players() gives now   *)
(* may be what it gave before, or not                                      *)
Refresh ==
    /\ pc = "listening"
    /\ app = "routes"
    /\ Len(loaded) <= MaxReloads
    /\ \E d \in ReloadDatasets :
          /\ df' = d
          /\ loaded' = Append(loaded, d)
    /\ UNCHANGED <<columns, pc, budget, team_size, role_constraints, strategy,
                   vresult, oresult, solve_count, stored_at>>
    /\ UNCHANGED serverVars
    /\ UNCHANGED concurrentVars
    /\ UNCHANGED scoringVars
    /\ UNCHANGED <<excluded_players, required_players>>
    /\ UNCHANGED snapshotVars
    /\ UNCHANGED repositoryVars

ReloadNext ==
    \/ ReceiveReloadRequest
    \/ EndpointGetCacheKey
    \/ EndpointCacheGet
    \/ EndpointValidate
    \/ EndpointOptimize
    \/ EndpointCacheSet
    \/ Respond
    \/ Refresh

ReloadSpec == InitReload /\ [][ReloadNext]_vars

----------------------------------------------------------------------------
(* Two handlers in flight.  Each runs the steps of optimize_team_endpoint  *)
(* on its own locals; the cache and the dataset are shared.  The steps of  *)
(* the two are interleaved at every statement: this covers the event       *)
(* loop, which runs a handler without preemption, and a threaded server.   *)

Handlers == {1, 2}

ConcurrentRequests ==
    [budget : (MaxRequestBudget - 1)..MaxRequestBudget,
     team_size : {MaxTeamSize - 1, MaxTeamSize},
     strategy : Strategies]

(* the base squad, and the base squad with a free BAT, for which several   *)
(* rosters are optimal                                                     *)
ConcurrentDatasets == {BaseSquad, Append(BaseSquad, Row("BAT", 0, 1))}

(* optimize_team(df_scored, budget, team_size, strategy) on these datasets *)
(* and requests, computed once                                             *)
OptimizeOutcomes ==
    [d \in ConcurrentDatasets |->
        [r \in ConcurrentRequests |->
            optimize_team(d, AllColumns, r.budget, r.team_size,
                          NoneConstraints, r.strategy)]]

(* the locals of a handler that has parsed its request *)
Received(request) ==
    [pc |-> "keying", budget |-> request.budget,
     team_size |-> request.team_size, strategy |-> request.strategy,
     cache_key |-> NoKey, lookup |-> "none", vresult |-> "none",
     oresult |-> NoResult, response |-> NoResult]

RequestOf(h) ==
    [budget |-> h.budget, team_size |-> h.team_size, strategy |-> h.strategy]

(* the caches earlier requests can have left: empty, or one roster *)
WarmCaches(a, d) ==
    LET solved == {q \in ConcurrentRequests :
                     /\ EndpointCacheKey(a, q.budget, q.team_size, q.strategy, d).status = "ok"
                     /\ validate_optimization_inputs(q.budget, d, AllColumns,
                                                     NoneConstraints) = "ok"}
        key(r) == EndpointCacheKey(a, r.budget, r.team_size, r.strategy, d).key
    IN  {EmptyCache} \cup
        UNION {{CacheSet(EmptyCache, key(r), o) :
                    o \in {x \in OptimizeOutcomes[d][r] : x.status = "ok"}} :
               r \in solved}

InitConcurrent ==
    /\ df \in ConcurrentDatasets
    /\ columns = AllColumns
    /\ pc = "serving"
    /\ app \in Apps
    /\ cache \in WarmCaches(app, df)
    /\ prev = NoPrev
    /\ NoCall
    /\ handlers \in [Handlers -> {Received(r) : r \in ConcurrentRequests}]
    /\ writes = << >>
    /\ frames = << >>
    /\ calls = << >>
    /\ excluded_players = {}
    /\ required_players = {}
    /\ cached_players_df = NothingCached
    /\ served = << >>
    /\ loaded = << >>
    /\ stored_at = << >>
    /\ store = NoStore
    /\ load_log = << >>

HandlerFrame ==
    UNCHANGED <<df, columns, pc, budget, team_size, role_constraints, strategy,
                vresult, oresult, solve_count, app, cache_key, lookup,
                response, prev, frames, calls, excluded_players,
                required_players, cached_players_df, served, loaded,
                stored_at, store, load_log>>

(* cache_key = optimization_cache.get_cache_key(...) *)
HandlerGetCacheKey(i) ==
    /\ handlers[i].pc = "keying"
    /\ LET h == handlers[i]
           k == EndpointCacheKey(app, h.budget, h.team_size, h.strategy, df)
       IN  handlers' = [handlers EXCEPT ![i] =
               IF k.status = "ok"
               THEN [h EXCEPT !.cache_key = k, !.pc = "lookup"]
               ELSE [h EXCEPT !.cache_key = k, !.pc = "rejected",
                              !.response = HttpError(k.status)]]
    /\ UNCHANGED <<cache, writes>>
    /\ HandlerFrame

(* cached_result = optimization_cache.get(cache_key); if cached_result *)
HandlerCacheGet(i) ==
    /\ handlers[i].pc = "lookup"
    /\ LET h == handlers[i]
           cached_result == CacheGet(cache, h.cache_key.key)
       IN  handlers' = [handlers EXCEPT ![i] =
               IF Truthy(cached_result)
               THEN [h EXCEPT !.lookup = "hit", !.response = cached_result,
                              !.pc = "responded"]
               ELSE [h EXCEPT !.lookup = "miss", !.pc = "validating"]]
    /\ UNCHANGED <<cache, writes>>
    /\ HandlerFrame

(* validate_optimization_inputs(budget=request.budget, df=df_scored) *)
HandlerValidate(i) ==
    /\ handlers[i].pc = "validating"
    /\ LET h == handlers[i]
           v == validate_optimization_inputs(h.budget, df, columns, NoneConstraints)
       IN  handlers' = [handlers EXCEPT ![i] =
               IF v = "ok"
               THEN [h EXCEPT !.vresult = v, !.pc = "optimizing"]
               ELSE [h EXCEPT !.vresult = v, !.pc = "rejected",
                              !.response = HttpError("ValidationError")]]
    /\ UNCHANGED <<cache, writes>>
    /\ HandlerFrame

(* result = optimize_team(df_scored, budget, team_size, strategy) *)
HandlerOptimize(i) ==
    /\ handlers[i].pc = "optimizing"
    /\ LET h == handlers[i]
       IN  \E o \in OptimizeOutcomes[df][RequestOf(h)] :
               handlers' = [handlers EXCEPT ![i] =
                   IF o.status = "ok"
                   THEN [h EXCEPT !.oresult = o, !.pc = "caching"]
                   ELSE [h EXCEPT !.oresult = o, !.pc = "rejected",
                                  !.response = HttpError("ValueError")]]
    /\ UNCHANGED <<cache, writes>>
    /\ HandlerFrame

(* Faulty variant: a handler that finds an entry under its key at the      *)
(* write keeps the entry and answers with its own roster                   *)
HandlerCacheSet_KeepFirst(i) ==
    /\ handlers[i].pc = "caching"
    /\ LET h == handlers[i]
       IN  /\ handlers' = [handlers EXCEPT ![i] =
                  [h EXCEPT !.response = h.oresult, !.pc = "responded"]]
           /\ cache' = IF h.cache_key.key \in DOMAIN cache THEN cache
                       ELSE CacheSet(cache, h.cache_key.key, h.oresult)
    /\ writes' = Append(writes, i)
    /\ HandlerFrame

(* optimization_cache.set(cache_key, response); return response *)
HandlerCacheSet(i) ==
    /\ handlers[i].pc = "caching"
    /\ LET h == handlers[i]
       IN  /\ handlers' = [handlers EXCEPT ![i] =
                  [h EXCEPT !.response = h.oresult, !.pc = "responded"]]
           /\ cache' = CacheSet(cache, h.cache_key.key, h.oresult)
    /\ writes' = Append(writes, i)
    /\ HandlerFrame

ConcurrentNext ==
    \E i \in Handlers :
        \/ HandlerGetCacheKey(i)
        \/ HandlerCacheGet(i)
        \/ HandlerValidate(i)
        \/ HandlerOptimize(i)
        \/ HandlerCacheSet(i)

ConcurrentSpec == InitConcurrent /\ [][ConcurrentNext]_vars

----------------------------------------------------------------------------
(* The fixtures of the tests *)

(* tests/test_strategy.py 68-72: P1, P2, P3, all of role GEN *)
StrategyFixture ==
    << Row("GEN", 10, 100), Row("GEN", 5, 60), Row("GEN", 5, 60) >>

(* tests/test_optimizer.py 8-30: WK1, WK2, BAT1-5, BOWL1-4, ALL1-4.  The   *)
(* prices 10, 8, 9, 8.5 and 11 and the budgets of the calls on this        *)
(* dataset are counted in halves: 20, 16, 18, 17 and 22.                   *)
OptimizationFixture ==
    << Row("WK", 20, 100), Row("WK", 16, 80),
       Row("BAT", 18, 90), Row("BAT", 18, 90), Row("BAT", 18, 90),
       Row("BAT", 18, 90), Row("BAT", 18, 90),
       Row("BOWL", 17, 85), Row("BOWL", 17, 85), Row("BOWL", 17, 85),
       Row("BOWL", 17, 85),
       Row("ALL", 22, 110), Row("ALL", 22, 110), Row("ALL", 22, 110),
       Row("ALL", 22, 110) >>

Fixtures == {StrategyFixture, OptimizationFixture}

(* constraints = {"GEN": 2}, and the neighbouring counts *)
FixtureConstraints ==
    {NoneConstraints} \cup {GivenConstraints([GEN |-> q]) : q \in 0..3}

InitFixture ==
    /\ df \in Fixtures
    /\ columns = AllColumns
    /\ pc = "idle"
    /\ app = "none"
    /\ cache = EmptyCache
    /\ prev = NoPrev
    /\ NoCall
    /\ handlers = NoHandlers
    /\ writes = << >>
    /\ frames = << >>
    /\ calls = << >>
    /\ excluded_players \in {{}} \cup {{i} : i \in DOMAIN df}
    /\ required_players \in {{}} \cup {{i} : i \in DOMAIN df}
    /\ cached_players_df = NothingCached
    /\ served = << >>
    /\ loaded = << >>
    /\ stored_at = << >>
    /\ store = NoStore
    /\ load_log = << >>

(* validate_optimization_inputs(budget, df) on a fixture *)
FixtureValidateCall ==
    /\ pc = "idle"
    /\ df \in Fixtures
    /\ \E b \in Budgets(df), rc \in FixtureConstraints :
        /\ budget' = b
        /\ role_constraints' = rc
        /\ vresult' = validate_optimization_inputs(b, df, columns, rc)
    /\ pc' = "validate_done"
    /\ UNCHANGED <<df, columns, team_size, strategy, oresult, solve_count>>
    /\ UNCHANGED serverVars
    /\ UNCHANGED concurrentVars
    /\ UNCHANGED scoringVars
    /\ UNCHANGED <<excluded_players, required_players>>
    /\ UNCHANGED snapshotVars
    /\ UNCHANGED reloadVars
    /\ UNCHANGED repositoryVars

(* optimize_team(df, budget, team_size, role_constraints, strategy) on the *)
(* strategy fixture.  The function has no parameter for the players the    *)
(* caller excludes or requires: it creates one free decision variable for  *)
(* every row of df and constrains budget, team size and roles only.        *)
FixtureOptimizeCall ==
    /\ pc = "idle"
    /\ df = StrategyFixture
    /\ \E b \in Budgets(df), n \in TeamSizes(df),
          rc \in FixtureConstraints, st \in Strategies :
        /\ budget' = b
        /\ team_size' = n
        /\ role_constraints' = rc
        /\ strategy' = st
        /\ oresult' \in optimize_team(df, columns, b, n, rc, st)
        /\ solve_count' = SolverRuns(df, columns, b, n)
    /\ pc' = "optimize_done"
    /\ UNCHANGED <<df, columns, vresult>>
    /\ UNCHANGED serverVars
    /\ UNCHANGED concurrentVars
    /\ UNCHANGED scoringVars
    /\ UNCHANGED <<excluded_players, required_players>>
    /\ UNCHANGED snapshotVars
    /\ UNCHANGED reloadVars
    /\ UNCHANGED repositoryVars

FixtureNext ==
    \/ FixtureValidateCall
    \/ FixtureOptimizeCall
    \/ Return

FixtureSpec == InitFixture /\ [][FixtureNext]_vars

----------------------------------------------------------------------------
(* services/scoring.py: calculate_score *)

(* A DataFrame is its set of columns and its rows; a row maps each column  *)
(* to its value.  Scores are counted in tenths, which keeps                *)
(* 0.5*runs + 20*wickets + 0.3*strike_rate exact; the rounding of binary   *)
(* floating point is not represented.                                      *)
Frame(cols, rows) == [columns |-> cols, rows |-> rows]

(* Faulty variant: wickets is not among the required columns *)
ScoringRequiredColumns_NoWickets == {"runs", "strike_rate"}

(* required_columns = ["runs", "wickets", "strike_rate"] *)
ScoringRequiredColumns == {"runs", "wickets", "strike_rate"}

(* the columns the formula reads *)
ScoreFormulaColumns == {"runs", "wickets", "strike_rate"}

(* Faulty variant: strike_rate is not among the columns checked *)
ScoringMissingColumns_Partial(cols) == {"runs", "wickets"} \ cols

(* set(required_columns) - set(df_copy.columns) *)
ScoringMissingColumns(cols) == ScoringRequiredColumns \ cols

(* Faulty variant: a wicket counts 2 instead of 20 *)
ScoreFormula_LightWickets(row) ==
    5 * row["runs"] + 20 * row["wickets"] + 3 * row["strike_rate"]

(* (runs * 0.5) + (wickets * 20) + (strike_rate * 0.3), in tenths *)
ScoreFormula(row) ==
    5 * row["runs"] + 200 * row["wickets"] + 3 * row["strike_rate"]

(* df_copy["score"] = ...: the column is added, or overwritten *)
WithScore(row) ==
    [c \in DOMAIN row \cup {"score"} |->
        IF c = "score" THEN ScoreFormula(row) ELSE row[c]]

(* the identity of the object df.copy() allocates *)
NewFrame(heap) == Len(heap) + 1

(* Faulty variant: the score column is added to the argument itself *)
calculate_score_InPlace(heap, arg) ==
    LET f == heap[arg]
    IN  IF ScoringMissingColumns(f.columns) # {}
        THEN [status |-> "ValueError", heap |-> heap, ret |-> 0]
        ELSE [status |-> "ok",
              heap |-> [heap EXCEPT ![arg] =
                          Frame(f.columns \cup {"score"},
                                [i \in DOMAIN f.rows |-> WithScore(f.rows[i])])],
              ret |-> arg]

(* calculate_score(df) on the object arg: the exception raised or "ok",    *)
(* the objects afterwards, and the identity of the object returned         *)
calculate_score(heap, arg) ==
    LET f == heap[arg]
        df_copy == NewFrame(heap)
        copied == Append(heap, f)
    IN  IF ScoringMissingColumns(f.columns) # {}
        THEN [status |-> "ValueError", heap |-> copied, ret |-> 0]
        \* df_copy["runs"] and the like: a column that is absent is a KeyError
        ELSE IF ~ (ScoreFormulaColumns \subseteq f.columns)
        THEN [status |-> "KeyError", heap |-> copied, ret |-> 0]
        ELSE [status |-> "ok",
              heap |-> [copied EXCEPT ![df_copy] =
                          Frame(f.columns \cup {"score"},
                                [i \in DOMAIN f.rows |-> WithScore(f.rows[i])])],
              ret |-> df_copy]

(* Inputs: the columns of tests/test_scoring.py 8-15, with the metrics of  *)
(* its two players                                                         *)
RawColumns == {"name", "runs", "wickets", "strike_rate", "price", "role"}

RawColumnSets ==
    {RawColumns} \cup {RawColumns \ {c} : c \in ScoreFormulaColumns}
        \cup {{"name", "runs"}}

RunsValues == {50, 100}
WicketsValues == {2, 5}
StrikeRateValues == {100, 120}

RawRow(cols, r, w, sr) ==
    [c \in cols |->
        CASE c = "runs" -> r
          [] c = "wickets" -> w
          [] c = "strike_rate" -> sr
          [] c = "price" -> 10
          [] c = "role" -> "BAT"
          [] OTHER -> "Player1"]

RawRows(cols) ==
    {RawRow(cols, r, w, sr) :
        r \in RunsValues, w \in WicketsValues, sr \in StrikeRateValues}

RawFrames ==
    UNION {{Frame(cols, rows) :
                rows \in UNION {[1..n -> RawRows(cols)] : n \in 0..MaxScoreRows}} :
           cols \in RawColumnSets}

(* A loaded dataset waits to be scored *)
InitScoring ==
    /\ df = << >>
    /\ columns = AllColumns
    /\ pc = "scoring"
    /\ app = "none"
    /\ cache = EmptyCache
    /\ prev = NoPrev
    /\ NoCall
    /\ handlers = NoHandlers
    /\ writes = << >>
    /\ frames \in {<<f>> : f \in RawFrames}
    /\ calls = << >>
    /\ excluded_players = {}
    /\ required_players = {}
    /\ cached_players_df = NothingCached
    /\ served = << >>
    /\ loaded = << >>
    /\ stored_at = << >>
    /\ store = NoStore
    /\ load_log = << >>

(* A caller runs calculate_score on one of the DataFrames it holds: the    *)
(* loaded one, or one that an earlier call returned                        *)
ScoreCall ==
    /\ pc = "scoring"
    /\ Len(calls) < MaxScoreCalls
    /\ \E arg \in {1} \cup ({calls[k].ret : k \in DOMAIN calls} \ {0}) :
          LET out == calculate_score(frames, arg)
          IN  /\ frames' = out.heap
              /\ calls' = Append(calls,
                                 [arg |-> arg, before |-> frames[arg],
                                  status |-> out.status, ret |-> out.ret])
    /\ UNCHANGED <<df, columns, pc, budget, team_size, role_constraints,
                   strategy, vresult, oresult, solve_count>>
    /\ UNCHANGED serverVars
    /\ UNCHANGED concurrentVars
    /\ UNCHANGED <<excluded_players, required_players>>
    /\ UNCHANGED snapshotVars
    /\ UNCHANGED reloadVars
    /\ UNCHANGED repositoryVars

ScoringNext == ScoreCall

ScoringSpec == InitScoring /\ [][ScoringNext]_vars

----------------------------------------------------------------------------
(* services/player_service.py: get_scored_players; main.py:                *)
(* get_players_data                                                        *)

(* What load_players() gives at the moment of a call: the DataFrame built  *)
(* from the database or the CSV as they are then, or the exception raised  *)
(* (FileNotFoundError when there is no database and no CSV file)           *)
Loaded(f) == [status |-> "ok", frame |-> f]

LoadFails == [status |-> "FileNotFoundError", frame |-> Frame({}, << >>)]

SourceRows ==
    {RawRow(RawColumns, 100, 2, 120), RawRow(RawColumns, 50, 5, 100)}

SourceFrames ==
    {Frame(RawColumns, rows) :
        rows \in UNION {[1..n -> SourceRows] : n \in 0..MaxScoreRows}}
        \cup {Frame(RawColumns \ {"strike_rate"}, << >>)}

LoadOutcomes == {LoadFails} \cup {Loaded(f) : f \in SourceFrames}

(* Faulty variant: the global is not consulted, every call loads *)
MustLoad_Always(cached, force_refresh) == TRUE

(* _cached_players_df is None or force_refresh *)
MustLoad(cached, force_refresh) == cached = None \/ force_refresh

(* get_scored_players(force_refresh) with the module's global at cached,   *)
(* when load_players() would give load: the exception raised or "ok", the  *)
(* objects afterwards, the global afterwards, the object returned, and     *)
(* whether the load-and-score step was entered                             *)
get_scored_players(heap, cached, force_refresh, load) ==
    IF MustLoad(cached, force_refresh)
    THEN IF load.status # "ok"
         THEN [status |-> load.status, heap |-> heap, cached |-> cached,
               ret |-> None, ran |-> TRUE]
         ELSE LET raw == Append(heap, load.frame)
                  out == calculate_score(raw, Len(raw))
              IN  IF out.status # "ok"
                  THEN [status |-> out.status, heap |-> out.heap,
                        cached |-> cached, ret |-> None, ran |-> TRUE]
                  ELSE [status |-> "ok", heap |-> out.heap,
                        cached |-> out.ret, ret |-> out.ret, ran |-> TRUE]
    ELSE [status |-> "ok", heap |-> heap, cached |-> cached,
          ret |-> cached, ran |-> FALSE]

(* get_players_data() of main.py: the same without the parameter *)
get_players_data(heap, cached, load) ==
    get_scored_players(heap, cached, FALSE, load)

(* The process has started; no dataset has been asked for yet *)
InitSnapshot ==
    /\ df = << >>
    /\ columns = AllColumns
    /\ pc = "serving_players"
    /\ app = "none"
    /\ cache = EmptyCache
    /\ prev = NoPrev
    /\ NoCall
    /\ handlers = NoHandlers
    /\ writes = << >>
    /\ frames = << >>
    /\ calls = << >>
    /\ excluded_players = {}
    /\ required_players = {}
    /\ cached_players_df = NothingCached
    /\ served = << >>
    /\ loaded = << >>
    /\ stored_at = << >>
    /\ store = NoStore
    /\ load_log = << >>

SnapshotFrame ==
    /\ UNCHANGED <<df, columns, pc, budget, team_size, role_constraints,
                   strategy, vresult, oresult, solve_count, calls>>
    /\ UNCHANGED serverVars
    /\ UNCHANGED concurrentVars
    /\ UNCHANGED <<excluded_players, required_players>>
    /\ UNCHANGED reloadVars
    /\ UNCHANGED repositoryVars

(* the entry of the history for a call and its outcome *)
Served(m, force_refresh, out) ==
    [module |-> m, force_refresh |-> force_refresh, status |-> out.status,
     ret |-> out.ret, ran |-> out.ran,
     snapshot |-> IF out.ret = None THEN Frame({}, << >>) ELSE out.heap[out.ret]]

(* A caller runs get_scored_players(force_refresh) *)
GetScoredPlayers ==
    /\ pc = "serving_players"
    /\ Len(served) < MaxSnapshotCalls
    /\ \E force_refresh \in BOOLEAN, load \in LoadOutcomes :
          LET out == get_scored_players(frames, cached_players_df["player_service"],
                                        force_refresh, load)
          IN  /\ frames' = out.heap
              /\ cached_players_df' =
                    [cached_players_df EXCEPT !["player_service"] = out.cached]
              /\ served' = Append(served, Served("player_service", force_refresh, out))
    /\ SnapshotFrame

(* A handler of main.py runs get_players_data() *)
GetPlayersData ==
    /\ pc = "serving_players"
    /\ Len(served) < MaxSnapshotCalls
    /\ \E load \in LoadOutcomes :
          LET out == get_players_data(frames, cached_players_df["main"], load)
          IN  /\ frames' = out.heap
              /\ cached_players_df' =
                    [cached_players_df EXCEPT !["main"] = out.cached]
              /\ served' = Append(served, Served("main", FALSE, out))
    /\ SnapshotFrame

SnapshotNext == GetScoredPlayers \/ GetPlayersData

SnapshotSpec == InitSnapshot /\ [][SnapshotNext]_vars

----------------------------------------------------------------------------
(* services/validator.py: validate_dataframe *)

(* A cell of a DataFrame: a value, or null (None / NaN) *)
Cell(v) == [null |-> FALSE, v |-> v]
NullText == [null |-> TRUE, v |-> ""]
NullNumber == [null |-> TRUE, v |-> 0]

DataframeRequiredColumns == {"name", "price", "role", "score"}

(* critical_columns, in the order they are checked *)
CriticalColumns == <<"name", "price", "role">>

(* df.empty: no rows, or no columns *)
IsEmpty(f) == Len(f.rows) = 0 \/ f.columns = {}

(* df[col].isnull().sum() *)
NullCount(f, col) == Cardinality({i \in DOMAIN f.rows : f.rows[i][col].null})

(* Faulty variant: a price of 0 is let through *)
InvalidPrice_Negative(cell) == cell.v < 0

(* df['price'] <= 0 for one row *)
InvalidPrice(cell) == cell.v <= 0

(* validate_dataframe(df): "ok" when it returns, else which ValidationError *)
(* it raises                                                               *)
validate_dataframe(f) ==
    IF IsEmpty(f) THEN "empty"
    ELSE IF DataframeRequiredColumns \ f.columns # {} THEN "missing_columns"
    ELSE IF \E k \in DOMAIN CriticalColumns : NullCount(f, CriticalColumns[k]) > 0
    THEN "null_values"
    ELSE IF \E i \in DOMAIN f.rows : InvalidPrice(f.rows[i]["price"])
    THEN "invalid_prices"
    ELSE "ok"

(* Inputs: DataFrames of up to MaxCheckedRows rows over every subset of    *)
(* the four columns with at most one missing, and the DataFrame without    *)
(* columns; each cell is a value or null, prices are negative, zero or     *)
(* positive                                                                *)
CheckedColumnSets ==
    {DataframeRequiredColumns, {}, {"name", "price"}}
        \cup {DataframeRequiredColumns \ {c} : c \in DataframeRequiredColumns}

NameCells == {Cell("Player1"), NullText}
RoleCells == {Cell("BAT"), NullText}
PriceCells == {Cell(-1), Cell(0), Cell(10), NullNumber}
ScoreCells == {Cell(126), NullNumber}

CheckedRows(cols) ==
    {[c \in cols |->
        CASE c = "name" -> n
          [] c = "role" -> r
          [] c = "price" -> p
          [] OTHER -> sc] :
        n \in NameCells, r \in RoleCells, p \in PriceCells, sc \in ScoreCells}

CheckedFrames ==
    UNION {{Frame(cols, rows) :
                rows \in UNION {[1..n -> CheckedRows(cols)] :
                                    n \in 0..MaxCheckedRows}} :
           cols \in CheckedColumnSets}

(* A DataFrame waits to be checked *)
InitIntegrity ==
    /\ df = << >>
    /\ columns = AllColumns
    /\ pc = "unchecked"
    /\ app = "none"
    /\ cache = EmptyCache
    /\ prev = NoPrev
    /\ NoCall
    /\ handlers = NoHandlers
    /\ writes = << >>
    /\ frames \in {<<f>> : f \in CheckedFrames}
    /\ calls = << >>
    /\ excluded_players = {}
    /\ required_players = {}
    /\ cached_players_df = NothingCached
    /\ served = << >>
    /\ loaded = << >>
    /\ stored_at = << >>
    /\ store = NoStore
    /\ load_log = << >>

(* A caller runs validate_dataframe(df) *)
ValidateDataframeCall ==
    /\ pc = "unchecked"
    /\ vresult' = validate_dataframe(frames[1])
    /\ pc' = "checked"
    /\ UNCHANGED <<df, columns, budget, team_size, role_constraints, strategy,
                   oresult, solve_count>>
    /\ UNCHANGED serverVars
    /\ UNCHANGED concurrentVars
    /\ UNCHANGED scoringVars
    /\ UNCHANGED <<excluded_players, required_players>>
    /\ UNCHANGED snapshotVars
    /\ UNCHANGED reloadVars
    /\ UNCHANGED repositoryVars

IntegrityNext == ValidateDataframeCall

IntegritySpec == InitIntegrity /\ [][IntegrityNext]_vars

----------------------------------------------------------------------------
(* player_repository.py: sync_csv_to_database, load_players_from_database, *)
(* load_players                                                            *)

(* store.players is the committed content of the players table,            *)
(* store.available what is_database_available() gives, store.csv the rows  *)
(* of the CSV file when store.csv_exists.                                  *)

(* load_players of data_loader, imported as load_players_from_csv: the     *)
(* rows of the file, or FileNotFoundError                                  *)
load_players_from_csv(st) ==
    IF st.csv_exists THEN [status |-> "ok", rows |-> st.csv]
    ELSE [status |-> "FileNotFoundError", rows |-> << >>]

(* session.close() (database.py 122-123, player_repository.py 67-68): the  *)
(* table keeps the session's changes only if session.commit() was called   *)
SessionClose(committed, pending, commit_called) ==
    IF commit_called THEN pending ELSE committed

(* sync_csv_to_database(csv_path): inside the session the table is emptied *)
(* and one Player per CSV row is added; the function returns the count and *)
(* closes the session.  It never calls session.commit().                   *)
sync_csv_to_database(st) ==
    IF ~ st.available
    THEN [status |-> "RuntimeError", store |-> st, count |-> 0]
    ELSE LET file == load_players_from_csv(st)
         IN  IF file.status # "ok"
             THEN [status |-> file.status, store |-> st, count |-> 0]
             ELSE LET emptied == << >>
                      pending == emptied \o file.rows
                  IN  [status |-> "ok",
                       store |-> [st EXCEPT !.players =
                                     SessionClose(st.players, pending, FALSE)],
                       count |-> Len(file.rows)]

(* load_players_from_database(): None (written as absent) when the         *)
(* database is unavailable or the table has no rows                        *)
load_players_from_database(st) ==
    IF ~ st.available THEN [present |-> FALSE, rows |-> << >>]
    ELSE IF st.players = << >> THEN [present |-> FALSE, rows |-> << >>]
    ELSE [present |-> TRUE, rows |-> st.players]

(* the CSV fallback at the end of load_players *)
FromCsv(st) ==
    LET file == load_players_from_csv(st)
    IN  [status |-> file.status, source |-> "csv", rows |-> file.rows,
         store |-> st]

(* load_players(csv_path, auto_sync): the rows returned or the exception   *)
(* raised, where the rows came from, and the store afterwards              *)
load_players(st, auto_sync) ==
    IF st.available
    THEN LET first == load_players_from_database(st)
         IN  IF first.present /\ first.rows # << >>
             THEN [status |-> "ok", source |-> "database", rows |-> first.rows,
                   store |-> st]
             ELSE IF auto_sync
             THEN LET sync == sync_csv_to_database(st)
                      second == load_players_from_database(sync.store)
                  IN  IF sync.status = "ok" /\ second.present
                      THEN [status |-> "ok", source |-> "database",
                            rows |-> second.rows, store |-> sync.store]
                      ELSE FromCsv(sync.store)
             ELSE FromCsv(st)
    ELSE FromCsv(st)

(* Inputs: tables and files of up to MaxStoredPlayers of the test's two    *)
(* players                                                                 *)
PlayerTables ==
    UNION {[1..n -> SourceRows] : n \in 0..MaxStoredPlayers}

Stores ==
    {[available |-> a, players |-> IF a THEN t ELSE << >>,
      csv_exists |-> x, csv |-> IF x THEN c ELSE << >>] :
        a \in BOOLEAN, t \in PlayerTables, x \in BOOLEAN, c \in PlayerTables}

InitRepository ==
    /\ df = << >>
    /\ columns = AllColumns
    /\ pc = "loading"
    /\ app = "none"
    /\ cache = EmptyCache
    /\ prev = NoPrev
    /\ NoCall
    /\ handlers = NoHandlers
    /\ writes = << >>
    /\ frames = << >>
    /\ calls = << >>
    /\ excluded_players = {}
    /\ required_players = {}
    /\ cached_players_df = NothingCached
    /\ served = << >>
    /\ loaded = << >>
    /\ stored_at = << >>
    /\ store \in Stores
    /\ load_log = << >>

(* A caller runs load_players(auto_sync=...) *)
LoadPlayers ==
    /\ pc = "loading"
    /\ Len(load_log) < MaxLoads
    /\ \E auto_sync \in BOOLEAN :
          LET out == load_players(store, auto_sync)
          IN  /\ store' = out.store
              /\ load_log' = Append(load_log,
                                [auto_sync |-> auto_sync, before |-> store,
                                 status |-> out.status, source |-> out.source,
                                 rows |-> out.rows, after |-> out.store])
    /\ UNCHANGED <<df, columns, pc, budget, team_size, role_constraints,
                   strategy, vresult, oresult, solve_count>>
    /\ UNCHANGED serverVars
    /\ UNCHANGED concurrentVars
    /\ UNCHANGED scoringVars
    /\ UNCHANGED <<excluded_players, required_players>>
    /\ UNCHANGED snapshotVars
    /\ UNCHANGED reloadVars

RepositoryNext == LoadPlayers

RepositorySpec == InitRepository /\ [][RepositoryNext]_vars


----------------------------------------------------------------------------
(* Properties.  The constraints, the quota in force and the efficiency are *)
(* restated here from their description, independently of the operators    *)
(* above, and compared with what the calls produced.                       *)

QuotaInForce ==
    IF role_constraints.none
    THEN [WK |-> 1, BAT |-> 4, BOWL |-> 3, ALL |-> 3]
    ELSE role_constraints.map

Selected == oresult.selected

AllSubsets == SUBSET (DOMAIN df)

CostOf(T) == SumPrice(df, T)
ScoreOf(T) == SumScore(df, T)
CountOfRole(T, r) == Cardinality({i \in T : df[i].role = r})

MeetsQuota(T) ==
    \A r \in DOMAIN QuotaInForce : CountOfRole(T, r) = QuotaInForce[r]

SatisfiesAll(T) ==
    /\ Cardinality(T) = team_size
    /\ CostOf(T) <= budget
    /\ MeetsQuota(T)

(* optimize_team has finished, called directly or by the handler *)
OptimizeFinished ==
    \/ pc = "optimize_done"
    \/ pc \in {"caching", "responded", "rejected"} /\ oresult.status # "none"

RosterReturned == OptimizeFinished /\ oresult.status = "ok"

PassesArgumentChecks ==
    /\ {"name", "price", "score", "role"} \subseteq columns
    /\ Len(df) > 0
    /\ team_size > 0
    /\ team_size <= Len(df)
    /\ budget > 0

(* C1: every roster optimize_team returns holds exactly team_size players  *)
(* and the sum of their prices is at most budget.                          *)
C1_SizeAndBudget ==
    RosterReturned =>
        /\ Cardinality(Selected) = team_size
        /\ CostOf(Selected) <= budget
        /\ oresult.total_cost <= budget

(* a roster that spends the whole budget and leaves out players the budget *)
(* could not pay for                                                       *)
C1_Witness ==
    /\ RosterReturned
    /\ CostOf(Selected) = budget
    /\ team_size < Len(df)
    /\ \E T \in AllSubsets :
          Cardinality(T) = team_size /\ MeetsQuota(T) /\ CostOf(T) > budget

(* C2: in every roster optimize_team returns, each role of the quota in    *)
(* force (the caller's, or the default WK=1, BAT=4, BOWL=3, ALL=3) is held *)
(* by exactly quota[role] selected players.                                *)
C2_ExactRoleCounts ==
    RosterReturned => MeetsQuota(Selected)

(* a roster returned under the default quota from a squad that has more    *)
(* than the quota in some role                                             *)
C2_Witness ==
    /\ RosterReturned
    /\ role_constraints.none
    /\ \E r \in DOMAIN QuotaInForce :
          CountOfRole(DOMAIN df, r) > QuotaInForce[r]

(* C3: with MAX_SCORE, no subset of the dataset that satisfies the budget, *)
(* team-size and role-quota constraints has a total score above the        *)
(* total_score of the returned roster.                                     *)
C3_MaxScoreOptimal ==
    RosterReturned /\ strategy = "MAX_SCORE" =>
        /\ oresult.total_score = ScoreOf(Selected)
        /\ \A T \in AllSubsets :
              SatisfiesAll(T) => ScoreOf(T) <= oresult.total_score

(* a MAX_SCORE roster that beats another feasible subset, while a subset   *)
(* scoring no less is out of reach of the budget                           *)
C3_Witness ==
    /\ RosterReturned
    /\ strategy = "MAX_SCORE"
    /\ \E T \in AllSubsets : SatisfiesAll(T) /\ ScoreOf(T) < ScoreOf(Selected)
    /\ \E T \in AllSubsets :
          /\ Cardinality(T) = team_size
          /\ MeetsQuota(T)
          /\ CostOf(T) > budget
          /\ ScoreOf(T) >= ScoreOf(Selected)

(* efficiency of one player times EffDen: score/price for a positive       *)
(* price; for a zero price, score*1000 if the score is positive, else 0    *)
PlayerEfficiency(i) ==
    IF df[i].price > 0 THEN (df[i].score * EffDen) \div df[i].price
    ELSE IF df[i].score > 0 THEN df[i].score * 1000 * EffDen
    ELSE 0

RECURSIVE EfficiencyOf(_)
EfficiencyOf(T) ==
    IF T = {} THEN 0
    ELSE LET i == CHOOSE i \in T : TRUE
         IN  PlayerEfficiency(i) + EfficiencyOf(T \ {i})

C5_RosterIffFeasible ==
    OptimizeFinished /\ PassesArgumentChecks =>
        /\ oresult.status = "ok" <=> \E T \in AllSubsets : SatisfiesAll(T)
        /\ oresult.status = "ok" => SatisfiesAll(Selected)
        /\ oresult.status # "ok" =>
              oresult.status = "Infeasible" /\ Selected = {}

(* a failed solve: team size and quota can be met, but not within budget   *)
C5_Witness ==
    /\ OptimizeFinished
    /\ PassesArgumentChecks
    /\ oresult.status = "Infeasible"
    /\ \E T \in AllSubsets : Cardinality(T) = team_size /\ MeetsQuota(T)

(* validate_optimization_inputs has finished, called directly or by the    *)
(* handler                                                                 *)
ValidateFinished ==
    \/ pc = "validate_done"
    \/ pc \in {"optimizing", "caching", "responded", "rejected"} /\ vresult # "none"

ValidationRaised == vresult # "ok"

ValidatorColumnsPresent == {"name", "price", "role"} \subseteq columns

RowsOfRole(r) == {i \in DOMAIN df : df[i].role = r}

EnoughCandidates ==
    \A r \in DOMAIN QuotaInForce : Cardinality(RowsOfRole(r)) >= QuotaInForce[r]

RoleShort ==
    \E r \in DOMAIN QuotaInForce : Cardinality(RowsOfRole(r)) < QuotaInForce[r]

(* the least price of quota[r] candidates of role r *)
CheapestCost(r) ==
    LET picks == {X \in SUBSET RowsOfRole(r) : Cardinality(X) = QuotaInForce[r]}
        costs == {CostOf(X) : X \in picks}
    IN  CHOOSE c \in costs : \A c2 \in costs : c <= c2

RECURSIVE LowerBoundOver(_)
LowerBoundOver(R) ==
    IF R = {} THEN 0
    ELSE LET r == CHOOSE r \in R : TRUE
         IN  CheapestCost(r) + LowerBoundOver(R \ {r})

(* the lower-bound cost: the per-role minimums summed over the quota roles *)
LowerBoundCost == LowerBoundOver(DOMAIN QuotaInForce)

(* C6: with budget > 0, the required columns present and enough candidates *)
(* for every quota role, validate_optimization_inputs raises exactly when  *)
(* budget is strictly below the lower-bound cost.                          *)
C6_RaisesIffBelowLowerBound ==
    ValidateFinished /\ budget > 0 /\ ValidatorColumnsPresent /\ EnoughCandidates =>
        (ValidationRaised <=> budget < LowerBoundCost)

(* C7: with the required columns present and budget > 0, whenever          *)
(* validate_optimization_inputs raises, no subset of the dataset satisfies *)
(* the budget and role-quota constraints of optimize_team.                 *)
C7_ValidatorSound ==
    ValidateFinished /\ budget > 0 /\ ValidatorColumnsPresent /\ ValidationRaised =>
        ~ \E T \in AllSubsets : CostOf(T) <= budget /\ MeetsQuota(T)

(* the handler has run its validation step for the request in progress *)
RequestValidated ==
    pc \in {"optimizing", "caching", "responded", "rejected"} /\ vresult # "none"

(* C8: a request whose budget equals the lower-bound cost passes           *)
(* validation and gets a roster exactly when the selection problem is      *)
(* feasible; a request whose budget is one below the lower-bound cost is   *)
(* rejected by the validator for its budget and no solve is run for it.    *)
C8_LowerBoundBoundary ==
    RequestValidated /\ EnoughCandidates =>
        /\ budget = LowerBoundCost =>
              /\ vresult = "ok"
              /\ pc # "optimizing" =>
                    (RosterReturned <=> \E T \in AllSubsets : SatisfiesAll(T))
        /\ budget = LowerBoundCost - 1 =>
              /\ vresult = "insufficient_budget"
              /\ pc = "rejected"
              /\ oresult.status = "none"
              /\ solve_count = 0

(* a request at exactly the lower-bound cost that is answered with a roster *)
C8_Witness ==
    /\ pc = "responded"
    /\ EnoughCandidates
    /\ budget = LowerBoundCost
    /\ RosterReturned
    /\ solve_count = 1

(* C9: validate_optimization_inputs raises whenever some quota role has    *)
(* fewer candidates than required (an absent role has 0), and the          *)
(* availability check raises only then.                                    *)
C9_AvailabilityCheck ==
    ValidateFinished =>
        /\ RoleShort => ValidationRaised
        /\ RoleShort /\ budget > 0 /\ ValidatorColumnsPresent =>
              vresult = "insufficient_players"
        /\ vresult = "insufficient_players" => RoleShort

(* the availability failure for a quota role that the dataset lacks, while *)
(* another quota role has exactly the required number                      *)
C9_Witness ==
    /\ ValidateFinished
    /\ vresult = "insufficient_players"
    /\ \E r \in DOMAIN QuotaInForce :
          QuotaInForce[r] > 0 /\ RowsOfRole(r) = {}
    /\ \E r \in DOMAIN QuotaInForce :
          QuotaInForce[r] > 0 /\ Cardinality(RowsOfRole(r)) = QuotaInForce[r]

(* the failure of the first of the four checks that fails, "ok" if none *)
FirstFailingCheck ==
    IF budget <= 0 THEN "budget_not_positive"
    ELSE IF ~ ValidatorColumnsPresent THEN "missing_columns"
    ELSE IF RoleShort THEN "insufficient_players"
    ELSE IF budget < LowerBoundCost THEN "insufficient_budget"
    ELSE "ok"

(* C10: validate_optimization_inputs applies (1) budget > 0, (2) required  *)
(* columns, (3) per-role availability, (4) budget >= lower-bound cost in   *)
(* this order, and what it raises is the failure of the first check that   *)
(* fails.                                                                  *)
C10_FirstFailingCheckRaised ==
    ValidateFinished => vresult = FirstFailingCheck

----------------------------------------------------------------------------
(* The request handlers and the result cache *)

RequestAnswered == pc \in {"responded", "rejected"}

(* the request in progress repeats the one answered just before it, which  *)
(* got a roster; the dataset is the one that request was answered from     *)
RepeatsPrevious ==
    /\ prev.response.status = "ok"
    /\ prev.budget = budget
    /\ prev.team_size = team_size
    /\ prev.strategy = strategy

(* C11: when a request has the budget, team_size and strategy of the       *)
(* request handled just before it, and that one got a roster, the answer   *)
(* equals the first answer and the second request runs neither the         *)
(* validation nor a solve: a first request that was solved and its repeat  *)
(* count one solve together.                                               *)
C11_RepeatAnsweredFromCache ==
    RequestAnswered /\ RepeatsPrevious =>
        /\ response = prev.response
        /\ vresult = "none"
        /\ oresult.status = "none"
        /\ solve_count = 0
        /\ prev.solves <= 1
        /\ prev.solves + solve_count = prev.solves

(* a request solved once, then repeated and answered from the cache *)
C11_Witness ==
    /\ pc = "responded"
    /\ RepeatsPrevious
    /\ prev.solves = 1
    /\ lookup = "hit"
    /\ response.status = "ok"
    /\ Cardinality(response.selected) = 11

(* the request has got past the computation of its cache key *)
KeyComputed == pc \in {"lookup", "validating", "optimizing", "caching",
                       "responded", "rejected"}

(* the key a request with this strategy would get on the present dataset *)
KeyWithStrategy(st) == EndpointCacheKey(app, budget, team_size, st, df)

(* C12: the computation of the cache key from the request's budget,        *)
(* team_size, strategy and the dataset always succeeds; the keys of two    *)
(* requests that differ only in strategy differ; and a request answered    *)
(* from the cache gets a roster that optimize_team can return for the      *)
(* request's own strategy.                                                 *)
C12_KeyIncludesStrategy ==
    KeyComputed =>
        /\ cache_key.status = "ok"
        /\ \A s1, s2 \in Strategies :
              s1 # s2 => KeyWithStrategy(s1).key # KeyWithStrategy(s2).key
        /\ lookup = "hit" =>
              response \in optimize_team(df, columns, budget, team_size,
                                         NoneConstraints, strategy)

(* C13: within a request the validation runs only after a cache miss, the  *)
(* solve only after a miss and a validation that passed, and the cache is  *)
(* written only after the solve of that request returned a roster; the     *)
(* write stores that roster under the request's key.                       *)
C13_StepOrder ==
    [][ /\ pc' # "listening" /\ vresult' # vresult =>
              pc = "validating" /\ lookup = "miss"
        /\ pc' # "listening" /\ (oresult' # oresult \/ solve_count' # solve_count) =>
              pc = "optimizing" /\ lookup = "miss" /\ vresult = "ok"
        /\ cache' # cache =>
              /\ pc = "caching" /\ lookup = "miss" /\ vresult = "ok"
              /\ oresult.status = "ok" /\ solve_count = 1
              /\ cache' = CacheSet(cache, cache_key.key, oresult)
        /\ lookup' = "hit" =>
              /\ pc' = "responded"
              /\ vresult' = "none" /\ oresult'.status = "none"
              /\ solve_count' = 0
      ]_vars

(* a request that missed the cache, passed the validation, was solved and  *)
(* has just written its roster to the cache                                *)
C13_Witness ==
    /\ pc = "responded"
    /\ lookup = "miss"
    /\ vresult = "ok"
    /\ oresult.status = "ok"
    /\ solve_count = 1
    /\ cache_key.key \in DOMAIN cache
    /\ cache[cache_key.key] = oresult

(* Two handlers in flight *)

HandlerDone(i) == handlers[i].pc \in {"responded", "rejected"}

BothDone == handlers # NoHandlers /\ \A i \in Handlers : HandlerDone(i)

(* both handlers carry the same key, both looked it up and missed, and the *)
(* cache was written: the lookups of both came before every write of the   *)
(* key, since a lookup after a write finds the entry                       *)
BothMissedSameKey ==
    /\ handlers # NoHandlers
    /\ handlers[1].cache_key.status = "ok"
    /\ handlers[1].cache_key = handlers[2].cache_key
    /\ \A i \in Handlers : handlers[i].lookup = "miss"
    /\ writes # << >>

FeasibleFor(T, h) ==
    /\ Cardinality(T) = h.team_size
    /\ CostOf(T) <= h.budget
    /\ MeetsQuota(T)

ValueFor(T, h) ==
    IF h.strategy = "MAX_SCORE_PER_COST" THEN EfficiencyOf(T) ELSE ScoreOf(T)

(* the handler answers with a roster that satisfies every constraint of    *)
(* its request and that no feasible selection beats on the objective of    *)
(* its strategy                                                            *)
OptimalRosterFor(h) ==
    /\ h.response.status = "ok"
    /\ FeasibleFor(h.response.selected, h)
    /\ h.response.total_cost = CostOf(h.response.selected)
    /\ h.response.total_score = ScoreOf(h.response.selected)
    /\ \A T \in AllSubsets :
          FeasibleFor(T, h) => ValueFor(T, h) <= ValueFor(h.response.selected, h)

LastWriter == writes[Len(writes)]

(* C14: when two handlers with the same cache key have both missed and the *)
(* key is then written, both complete with a roster that satisfies all     *)
(* constraints and is optimal for the request, and the cache then holds    *)
(* under that key the roster of the handler that wrote last; no write      *)
(* removes an entry or changes the entry of a key other than its own.      *)
C14_ConcurrentSameKey ==
    /\ [](BothDone /\ BothMissedSameKey =>
            /\ \A i \in Handlers : OptimalRosterFor(handlers[i])
            /\ Len(writes) = 2
            /\ handlers[1].cache_key.key \in DOMAIN cache
            /\ cache[handlers[1].cache_key.key] = handlers[LastWriter].response)
    /\ [][\A k \in DOMAIN cache :
              /\ k \in DOMAIN cache'
              /\ cache'[k] # cache[k] =>
                    \E i \in Handlers :
                        /\ handlers[i].pc = "caching"
                        /\ handlers'[i].pc = "responded"
                        /\ handlers[i].cache_key.key = k]_vars

(* both handlers missed the same key, solved, got different optimal        *)
(* rosters and wrote; the cache holds the later one next to the entry of   *)
(* another key                                                             *)
C14_Witness ==
    /\ BothDone
    /\ BothMissedSameKey
    /\ Len(writes) = 2
    /\ handlers[1].response # handlers[2].response
    /\ cache[handlers[1].cache_key.key] = handlers[LastWriter].response
    /\ Cardinality(DOMAIN cache) = 2

(* The fixtures *)

(* C15: on the three-candidate fixture with quota {GEN: 2}, team_size 2    *)
(* and budget 20, MAX_SCORE returns a roster that contains P1 and has      *)
(* total_score 160, and MAX_SCORE_PER_COST returns exactly {P2, P3} with   *)
(* total_score 120.                                                        *)
C15_StrategyChangesOutcome ==
    /\ pc = "optimize_done"
    /\ df = << [role |-> "GEN", price |-> 10, score |-> 100],
               [role |-> "GEN", price |-> 5, score |-> 60],
               [role |-> "GEN", price |-> 5, score |-> 60] >>
    /\ budget = 20
    /\ team_size = 2
    /\ role_constraints = [none |-> FALSE, map |-> [GEN |-> 2]]
    => /\ oresult.status = "ok"
       /\ strategy = "MAX_SCORE" =>
             1 \in oresult.selected /\ oresult.total_score = 160
       /\ strategy = "MAX_SCORE_PER_COST" =>
             oresult.selected = {2, 3} /\ oresult.total_score = 120

(* the MAX_SCORE_PER_COST call of the test has returned P2 and P3 *)
C15_Witness ==
    /\ pc = "optimize_done"
    /\ df = StrategyFixture
    /\ budget = 20
    /\ team_size = 2
    /\ role_constraints = GivenConstraints([GEN |-> 2])
    /\ strategy = "MAX_SCORE_PER_COST"
    /\ oresult.status = "ok"
    /\ oresult.selected = {2, 3}
    /\ oresult.total_cost = 10

(* C16: on the 15-candidate fixture with the default quota, a call of      *)
(* validate_optimization_inputs with budget 50 (100 halves) raises the     *)
(* insufficient-budget failure, and the minimum cost it has computed is    *)
(* 102.5 (205 halves).                                                     *)
C16_ScenarioB ==
    /\ pc = "validate_done"
    /\ Len(df) = 15
    /\ role_constraints.none
    /\ budget = 100
    => /\ vresult = "insufficient_budget"
       /\ MinCost(df, EffectiveConstraints(role_constraints)) = 205
       /\ LowerBoundCost = 205

(* the call of Scenario B has been rejected for its budget *)
C16_Witness ==
    /\ pc = "validate_done"
    /\ df = OptimizationFixture
    /\ role_constraints = NoneConstraints
    /\ budget = 100
    /\ vresult = "insufficient_budget"

(* The scorer *)

(* the k-th call of calculate_score returned a DataFrame *)
Scored(k) == calls[k].status = "ok"

ResultOf(k) == frames[calls[k].ret]

(* C17: in the DataFrame calculate_score returns, the score of every row   *)
(* is 0.5*runs + 20*wickets + 0.3*strike_rate of the input row (126 for    *)
(* runs 100, wickets 2, strike_rate 120; 155 for 50, 5, 100), and every    *)
(* other column of the row has the input's value.                          *)
C17_ScoreFormula ==
    \A k \in DOMAIN calls :
        Scored(k) =>
            LET in == calls[k].before
                out == ResultOf(k)
            IN  /\ out.columns = in.columns \cup {"score"}
                /\ DOMAIN out.rows = DOMAIN in.rows
                /\ \A i \in DOMAIN in.rows :
                      LET x == in.rows[i]
                          y == out.rows[i]
                      IN  /\ DOMAIN y = out.columns
                          /\ y["score"] = 5 * x["runs"] + 200 * x["wickets"]
                                              + 3 * x["strike_rate"]
                          /\ \A c \in in.columns \ {"score"} : y[c] = x[c]
                          /\ (x["runs"] = 100 /\ x["wickets"] = 2
                                /\ x["strike_rate"] = 120) => y["score"] = 1260
                          /\ (x["runs"] = 50 /\ x["wickets"] = 5
                                /\ x["strike_rate"] = 100) => y["score"] = 1550

(* the two players of the test have been scored 126 and 155 *)
C17_Witness ==
    /\ Len(calls) = 1
    /\ Scored(1)
    /\ Len(ResultOf(1).rows) = 2
    /\ ResultOf(1).rows[1]["score"] = 1260
    /\ ResultOf(1).rows[2]["score"] = 1550
    /\ ResultOf(1).rows[1]["name"] = "Player1"

(* C18: a call of calculate_score leaves its argument as it was (no column *)
(* added, no value altered), the DataFrame it returns is another object    *)
(* than its argument, and two calls on the same argument return equal      *)
(* scores.                                                                 *)
C18_ScorerPure ==
    /\ \A k \in DOMAIN calls :
          /\ frames[calls[k].arg] = calls[k].before
          /\ Scored(k) => calls[k].ret # calls[k].arg
    /\ \A j, k \in DOMAIN calls :
          Scored(j) /\ Scored(k) /\ calls[j].arg = calls[k].arg =>
              /\ calls[j].ret # calls[k].ret \/ j = k
              /\ ResultOf(j) = ResultOf(k)

(* the same unscored DataFrame has been scored twice *)
C18_Witness ==
    /\ Len(calls) = 2
    /\ Scored(1) /\ Scored(2)
    /\ calls[1].arg = calls[2].arg
    /\ Len(frames[calls[1].arg].rows) > 0
    /\ "score" \notin frames[calls[1].arg].columns
    /\ "score" \in ResultOf(2).columns

(* C19 as stated: calculate_score returns a scored DataFrame for every     *)
(* input and never raises.                                                 *)
C19_ScorerTotal ==
    \A k \in DOMAIN calls : Scored(k) /\ calls[k].ret \in DOMAIN frames

(* C19 amended: calculate_score returns a scored DataFrame for every input *)
(* that has the columns runs, wickets and strike_rate, an empty one        *)
(* included; for an input that lacks one of them it raises ValueError and  *)
(* returns nothing.                                                        *)
C19_ScorerTotalOnComplete ==
    \A k \in DOMAIN calls :
        IF {"runs", "wickets", "strike_rate"} \subseteq calls[k].before.columns
        THEN /\ calls[k].status = "ok"
             /\ calls[k].ret \in DOMAIN frames
             /\ "score" \in ResultOf(k).columns
        ELSE /\ calls[k].status = "ValueError"
             /\ calls[k].ret = 0

(* a DataFrame with rows but without the strike_rate column was refused,   *)
(* and its copy was left without a score                                   *)
C19_Witness ==
    /\ Len(calls) = 1
    /\ calls[1].status = "ValueError"
    /\ calls[1].before.columns = RawColumns \ {"strike_rate"}
    /\ Len(calls[1].before.rows) = MaxScoreRows
    /\ \A i \in DOMAIN frames : "score" \notin frames[i].columns

(* Exclusion *)

(* C20: no player whose id is among the request's excluded players is in   *)
(* the roster optimize_team returns.                                       *)
C20_ExcludedNeverSelected ==
    RosterReturned => oresult.selected \cap excluded_players = {}

(* Forced inclusion *)

(* C21: every player among the request's required players that is a row of *)
(* the dataset is in the roster optimize_team returns.                     *)
C21_RequiredAlwaysSelected ==
    RosterReturned =>
        (required_players \cap DOMAIN df) \subseteq oresult.selected

(* The dataset during request handling *)

(* C22: no step of the handler (key computation, validation, solve, cache  *)
(* read or write, sending the answer) changes the dataset: its rows, their *)
(* values and their order stay those of the snapshot that was loaded,      *)
(* whether the request gets a roster or an error.                          *)
C22_DatasetReadOnly == [][df' = df]_vars

(* a request has been keyed, validated and solved on the squad, whose rows *)
(* are not the same in reverse order                                       *)
C22_Witness ==
    /\ pc = "caching"
    /\ oresult.status = "ok"
    /\ vresult = "ok"
    /\ df = BaseSquad
    /\ df # DatasetAfterValidate_SortedInPlace(df)

(* The scored dataset kept by a module *)

CallsOf(m) == {k \in DOMAIN served : served[k].module = m}

NeverForced(m) == \A k \in CallsOf(m) : ~ served[k].force_refresh

Completed(k) == served[k].status = "ok"

(* the last call of a module, 0 when it was never called *)
LastCallOf(m) ==
    IF CallsOf(m) = {} THEN 0
    ELSE CHOOSE k \in CallsOf(m) : \A j \in CallsOf(m) : j <= k

(* the object a module's global held before its call k *)
CachedBefore(m, k) ==
    LET earlier == {j \in CallsOf(m) : j < k /\ Completed(j)}
    IN  IF earlier = {} THEN None
        ELSE served[CHOOSE j \in earlier : \A i \in earlier : i <= j].ret

(* no object that a call returned has changed since *)
HandedOutUnaltered ==
    \A k \in DOMAIN served :
        served[k].ret # None => frames[served[k].ret] = served[k].snapshot

(* C23 as stated: while a module is never called with force_refresh, the   *)
(* load-and-score step has run at most once and every call returned the    *)
(* same snapshot; a call with force_refresh replaces the snapshot by a     *)
(* newly loaded and scored one; no snapshot handed out is altered.         *)
C23_LoadedOnce ==
    /\ \A m \in SnapshotModules :
          /\ NeverForced(m) =>
                /\ Cardinality({k \in CallsOf(m) : served[k].ran}) <= 1
                /\ \A j, k \in CallsOf(m) :
                      Completed(j) /\ Completed(k) => served[j].ret = served[k].ret
          /\ \A k \in CallsOf(m) :
                served[k].force_refresh /\ Completed(k) =>
                    /\ served[k].ret # None
                    /\ \A j \in 1..(k - 1) : served[j].ret # served[k].ret
                    /\ k = LastCallOf(m) => cached_players_df[m] = served[k].ret
    /\ HandedOutUnaltered

(* C23 amended: while a module is never called with force_refresh, the     *)
(* load-and-score step has completed at most once, every call that         *)
(* returned has returned the same snapshot, and after a call that returned *)
(* no later call loads; a load-and-score that raises caches nothing, so    *)
(* the next call runs it again.  A call with force_refresh whose           *)
(* load-and-score completes replaces the snapshot by a newly loaded and    *)
(* scored one; one that raises returns nothing and leaves the snapshot in  *)
(* place.  No snapshot handed out is altered.                              *)
C23_LoadedOnceWhenCompleted ==
    /\ \A m \in SnapshotModules :
          /\ NeverForced(m) =>
                /\ Cardinality({k \in CallsOf(m) :
                                    served[k].ran /\ Completed(k)}) <= 1
                /\ \A j, k \in CallsOf(m) :
                      Completed(j) /\ Completed(k) => served[j].ret = served[k].ret
                /\ \A j, k \in CallsOf(m) :
                      Completed(j) /\ j < k => Completed(k) /\ ~ served[k].ran
          /\ \A k \in CallsOf(m) :
                /\ ~ Completed(k) =>
                      /\ served[k].ran /\ served[k].ret = None
                      /\ k = LastCallOf(m) =>
                            cached_players_df[m] = CachedBefore(m, k)
                /\ Completed(k) =>
                      /\ served[k].ret # None
                      /\ "score" \in served[k].snapshot.columns
                      /\ k = LastCallOf(m) => cached_players_df[m] = served[k].ret
                /\ Completed(k) /\ served[k].force_refresh =>
                      /\ served[k].ran
                      /\ \A j \in 1..(k - 1) : served[j].ret # served[k].ret
    /\ HandedOutUnaltered

(* get_scored_players loaded two players, answered a second call with the  *)
(* same object, and on force_refresh replaced it by a newly loaded,        *)
(* different dataset; the first snapshot is still as it was handed out     *)
C23_Witness ==
    /\ Len(served) = 3
    /\ \A k \in 1..3 : served[k].module = "player_service" /\ Completed(k)
    /\ served[1].ran /\ ~ served[1].force_refresh
    /\ ~ served[2].ran /\ served[2].ret = served[1].ret
    /\ served[3].force_refresh /\ served[3].ran
    /\ Len(served[1].snapshot.rows) = 2
    /\ Len(served[3].snapshot.rows) = 1
    /\ frames[served[1].ret] = served[1].snapshot
    /\ cached_players_df["player_service"] = served[3].ret

(* The cache across reloads of the dataset *)

(* the dataset that was current when the entry under key was written *)
StoredOn(key) == loaded[stored_at[key]]

(* the entries written for the budget, team_size and strategy of the       *)
(* request in progress                                                     *)
EntriesOfRequest ==
    {key \in DOMAIN cache :
        key[2] = budget /\ key[3] = team_size /\ key[4] = strategy}

(* C24: the key of a request is computed from the dataset current at that  *)
(* request; a request answered from the cache is answered from an entry    *)
(* written while a dataset of the present content (rows and row order) was *)
(* current, and never from one written under other content; and a request  *)
(* misses only when no entry for its budget, team_size and strategy was    *)
(* written under the present content, so that a reload which yields the    *)
(* same content still hits.                                                *)
C24_NoStaleResults ==
    /\ KeyComputed =>
          cache_key = EndpointCacheKey(app, budget, team_size, strategy, df)
    /\ lookup = "hit" =>
          /\ StoredOn(cache_key.key) = df
          /\ response \in optimize_team(df, columns, budget, team_size,
                                        NoneConstraints, strategy)
    /\ lookup = "miss" /\ pc \in {"validating", "optimizing", "caching"} =>
          \A key \in EntriesOfRequest : StoredOn(key) # df

(* after a reload to other content and one back to the first content, a    *)
(* request is answered from the entry written before both reloads, while   *)
(* the entry written under the other content stays unused                  *)
C24_Witness ==
    /\ Len(loaded) = 3
    /\ loaded[1] = loaded[3] /\ loaded[2] # loaded[1]
    /\ lookup = "hit"
    /\ pc = "responded"
    /\ stored_at[cache_key.key] = 1
    /\ \E key \in EntriesOfRequest : stored_at[key] = 2

(* The argument checks of optimize_team *)

ArgumentErrors ==
    {"missing_columns", "empty_dataframe", "team_size_not_positive",
     "team_size_exceeds_players", "budget_not_positive"}

ColumnMissing == {"name", "price", "score", "role"} \ columns # {}

(* C25: a direct call of optimize_team raises the ValueError of the first  *)
(* check that fails, in the order: a required column (name, price, score,  *)
(* role) is missing; the dataset is empty; team_size <= 0; team_size       *)
(* exceeds the number of rows; budget <= 0.  A call that fails a check     *)
(* runs no solve, and a call that passes them all raises none of these     *)
(* errors.                                                                 *)
C25_ArgumentChecksInOrder ==
    pc = "optimize_done" =>
        /\ ColumnMissing => oresult.status = "missing_columns"
        /\ ~ ColumnMissing /\ Len(df) = 0 => oresult.status = "empty_dataframe"
        /\ ~ ColumnMissing /\ Len(df) > 0 /\ team_size <= 0 =>
              oresult.status = "team_size_not_positive"
        /\ ~ ColumnMissing /\ Len(df) > 0 /\ team_size > Len(df) =>
              oresult.status = "team_size_exceeds_players"
        /\ ~ ColumnMissing /\ Len(df) > 0 /\ team_size \in 1..Len(df)
                /\ budget <= 0 =>
              oresult.status = "budget_not_positive"
        /\ ~ ColumnMissing /\ Len(df) > 0 /\ team_size \in 1..Len(df)
                /\ budget > 0 =>
              oresult.status \notin ArgumentErrors /\ solve_count = 1
        /\ oresult.status \in ArgumentErrors => solve_count = 0

(* a call with a team_size above the number of rows and a budget that is   *)
(* not positive has been refused for its team_size                         *)
C25_Witness ==
    /\ pc = "optimize_done"
    /\ ~ ColumnMissing
    /\ Len(df) = 2
    /\ team_size = 3
    /\ budget = 0
    /\ oresult.status = "team_size_exceeds_players"
    /\ solve_count = 0

(* The scorer on incomplete input *)

MetricColumns == {"runs", "wickets", "strike_rate"}

(* C26: a call of calculate_score on a DataFrame that lacks runs, wickets  *)
(* or strike_rate raises ValueError, returns no DataFrame, and leaves the  *)
(* DataFrame it was given with the columns and rows it had.                *)
C26_MissingColumnsRefused ==
    \A k \in DOMAIN calls :
        (\E c \in MetricColumns : c \notin calls[k].before.columns) =>
            /\ calls[k].status = "ValueError"
            /\ calls[k].ret = 0
            /\ frames[calls[k].arg] = calls[k].before
            /\ \A i \in DOMAIN frames : "score" \notin frames[i].columns

(* the DataFrame of the test, with name and runs only, was refused twice *)
C26_Witness ==
    /\ Len(calls) = 2
    /\ calls[1].before.columns = {"name", "runs"}
    /\ Len(calls[1].before.rows) = 1
    /\ calls[1].status = "ValueError"
    /\ calls[2].status = "ValueError"
    /\ calls[2].arg = calls[1].arg

(* The check of a DataFrame *)

HasNullIn(f, col) == \E i \in DOMAIN f.rows : f.rows[i][col].null

(* C27: validate_dataframe raises ValidationError exactly when the         *)
(* DataFrame is empty, or lacks one of the columns name, price, role and   *)
(* score, or has a null in name, price or role, or has a row with          *)
(* price <= 0; on every other DataFrame (a null score included) it         *)
(* returns.                                                                *)
C27_DataframeRejectedIff ==
    pc = "checked" =>
        LET f == frames[1]
            complete == {"name", "price", "role", "score"} \subseteq f.columns
        IN  vresult # "ok" <=>
                \/ Len(f.rows) = 0
                \/ ~ complete
                \/ complete /\ \E c \in {"name", "price", "role"} : HasNullIn(f, c)
                \/ complete /\ \E i \in DOMAIN f.rows : f.rows[i]["price"].v <= 0

(* a DataFrame whose only fault is a price of 0 in its second row, and     *)
(* which has a null score, has been refused                                *)
C27_Witness ==
    /\ pc = "checked"
    /\ vresult = "invalid_prices"
    /\ Len(frames[1].rows) = 2
    /\ frames[1].rows[1]["price"] = Cell(10)
    /\ frames[1].rows[2]["price"] = Cell(0)
    /\ frames[1].rows[1]["score"].null

(* Loading the players *)

(* C28: load_players returns the rows of the database whenever the         *)
(* database is available and has rows; when it is available and empty and  *)
(* auto_sync is true and the CSV can be read, the call leaves the CSV's    *)
(* players in the database, returns them with the database as source, and  *)
(* the calls after it are served from the database; with auto_sync the CSV *)
(* is the source only when the database is unavailable or the sync could   *)
(* not put a player into it.                                               *)
C28_DatabaseFirstAutoSync ==
    \A k \in DOMAIN load_log :
        LET call == load_log[k]
            synced == /\ call.before.available
                      /\ call.before.players = << >>
                      /\ call.auto_sync
                      /\ call.before.csv_exists
                      /\ call.before.csv # << >>
        IN  /\ call.before.available /\ call.before.players # << >> =>
                  /\ call.status = "ok"
                  /\ call.source = "database"
                  /\ call.rows = call.before.players
            /\ synced =>
                  /\ call.after.players = call.before.csv
                  /\ call.status = "ok"
                  /\ call.source = "database"
                  /\ call.rows = call.before.csv
                  /\ \A j \in DOMAIN load_log :
                        j > k => load_log[j].source = "database"
            /\ call.source = "csv" /\ call.auto_sync =>
                  \/ ~ call.before.available
                  \/ ~ call.before.csv_exists
                  \/ call.before.csv = << >>

(* Failures and the cache *)

(* the request in progress has ended in an error *)
RequestFailed == pc = "rejected"

(* C29: every cache entry is a roster, of the team_size of its key; the     *)
(* cache changes only in the step that stores, under the request's key, a  *)
(* roster that optimize_team returns for the request on the dataset, and   *)
(* that step ends the request with the roster as its answer; a step        *)
(* that ends a request in an error (validation failure, solve failure,     *)
(* unexpected exception) leaves the cache as it is, and so does every step *)
(* before it.                                                              *)
C29_FailuresNeverCached ==
    /\ [](\A key \in DOMAIN cache :
              /\ cache[key].status = "ok"
              /\ Cardinality(cache[key].selected) = key[3])
    /\ [](RequestFailed => response.status # "ok"
                            /\ CacheGet(cache, cache_key.key) # response)
    /\ [][ /\ cache' # cache =>
                /\ pc = "caching" /\ pc' = "responded"
                /\ oresult.status = "ok"
                /\ response' = oresult
                /\ cache' = CacheSet(cache, cache_key.key, oresult)
                /\ cache'[cache_key.key] \in
                      optimize_team(df, columns, budget, team_size,
                                    NoneConstraints, strategy)
           /\ pc' = "rejected" => cache' = cache
           /\ pc \in {"keying", "lookup", "validating", "optimizing"} =>
                cache' = cache
         ]_vars

(* after a request whose roster was cached, a request for a smaller team   *)
(* has failed at the solve, and the cache holds the one roster only        *)
C29_Witness ==
    /\ pc = "rejected"
    /\ oresult.status = "Infeasible"
    /\ response = HttpError("ValueError")
    /\ prev.response.status = "ok"
    /\ Cardinality(DOMAIN cache) = 1
    /\ \A key \in DOMAIN cache : cache[key] = prev.response

(* The handler and the default quota *)

HandlerActive == pc \in {"keying", "lookup", "validating", "optimizing",
                         "caching", "responded", "rejected"}

RoleCountIn(S, r) == Cardinality({i \in S : df[i].role = r})

====
